---- MODULE Spec2Model ----
(***************************************************************************)
(* Halifax Urban Mobility Data Viewer (src/app.py): the session state, the *)
(* filter form, the Render / Clear Map handlers, the map page run and the  *)
(* cached filter functions.                                                *)
(*                                                                         *)
(* A GeoDataFrame is [columns |-> set of column names, rows |-> sequence   *)
(* of records]; every row carries a feature id "fid" standing for its      *)
(* geometry / index. A Python list or tuple is a sequence; None is the     *)
(* string "None".                                                          *)
(***************************************************************************)
EXTENDS Integers, Sequences, FiniteSets, TLC

VARIABLES
    junctions_gdf,        \* module globals, loaded once (lines 212-216)
    traffic_controls_gdf,
    traffic_calming_gdf,
    street_lights_gdf,
    centrelines_gdf,
    collision_files,      \* traffic_collisions_by_year/collisions_<year>.shp
    session_state,        \* st.session_state: selected_*, last_rendered_*, flags
    widget_state,         \* value each multiselect holds in the running session
    widget_default,       \* default= each multiselect was last created with
    form_pending,         \* contents of the form controls in the browser
    last_tile_layer,      \* value the st_folium component reports
    widget_identity,      \* how the installed streamlit identifies a keyed widget
    pc,                   \* "idle": script finished; "rerun": st.rerun() requested
    event,                \* what asked for the last re-run: "load", "submit", "clear"
    page,                 \* what the last complete script run drew
    call                  \* last direct call of a cached filter function

vars == << junctions_gdf, traffic_controls_gdf, traffic_calming_gdf,
           street_lights_gdf, centrelines_gdf, collision_files, session_state,
           widget_state, widget_default, form_pending, last_tile_layer,
           widget_identity, pc, event, page, call >>

datasets == << junctions_gdf, traffic_controls_gdf, traffic_calming_gdf,
               street_lights_gdf, centrelines_gdf, collision_files >>

ui == << session_state, widget_state, widget_default, form_pending,
         last_tile_layer, pc, event, page >>

-----------------------------------------------------------------------------
(* Bounds of the model.                                                    *)

\* rows of a shapefile drawn for the filter-function specification
MaxRows == 3
\* rows of one collision year file drawn for the filter-function specification
MaxYearRows == 1
\* values checked in the form at one time, over all controls
MaxSelected == 1
\* controls edited in the browser since the form contents were last delivered
MaxEdits == 1

\* rows of a raw frame handed to a loader
MaxLoadRows == 2

\* values picked in one control of a form that is rendered as a whole
MaxPicked == 2

-----------------------------------------------------------------------------
(* Generic helpers for sequences and data frames.                          *)

None == "None"

Range(s) == { s[i] : i \in DOMAIN s }

RECURSIVE SumSeq(_)
SumSeq(s) == IF s = << >> THEN 0 ELSE Head(s) + SumSeq(Tail(s))

RECURSIVE Concat(_)
Concat(ss) == IF ss = << >> THEN << >> ELSE Head(ss) \o Concat(Tail(ss))

RECURSIVE SetToSortedSeq(_)
SetToSortedSeq(S) ==
    IF S = {} THEN << >>
    ELSE LET m == CHOOSE x \in S : \A y \in S : x <= y
         IN  << m >> \o SetToSortedSeq(S \ {m})

\* gpd.GeoDataFrame()
EmptyGDF == [columns |-> {}, rows |-> << >>]

\* df.empty
IsEmpty(gdf) == gdf.rows = << >>

\* series.isin(values), one element
IsIn(v, values) == \E i \in DOMAIN values : values[i] = v

\* gdf[gdf[col].isin(values)]: boolean mask, then the rows where it is True
RECURSIVE MaskRows(_, _)
MaskRows(rows, mask) ==
    IF rows = << >> THEN << >>
    ELSE (IF Head(mask) THEN << Head(rows) >> ELSE << >>)
         \o MaskRows(Tail(rows), Tail(mask))

IsInFilter(gdf, col, values) ==
    LET mask == [i \in DOMAIN gdf.rows |-> IsIn(gdf.rows[i][col], values)]
    IN  [gdf EXCEPT !.rows = MaskRows(gdf.rows, mask)]

\* series.value_counts().get(v, 0)
ValueCount(gdf, col, v) ==
    Cardinality({ i \in DOMAIN gdf.rows : gdf.rows[i][col] = v })

-----------------------------------------------------------------------------
(* Label tables and constants (lines 50-107, 616-620).                     *)

JUNCTION_TYPE_LABELS == { 0, 1, 2, 3, 4, 5 }

TRAFFIC_CONTROL_TYPE_LABELS == { 1, 6, 7, 8, 9, 10, 11, 12, 13, 14, 15 }

TRAFFIC_CALMING_ASSETCODE_LABELS ==
    << "BMPOUT", "BUSBMP", "BUSPTF", "CHICAN", "CTRMED", "RSDCRW", "RSDINT",
       "SPDCSH", "SPDHMP", "SPDTBL", "TRFCIR" >>

\* dict order of COLLISION_CHARACTERISTIC_FILTERS: << key, column >>
COLLISION_CHARACTERISTIC_FILTERS ==
    << << "non_fatal", "NON_FATAL_" >>,
       << "fatal_injury", "FATAL_INJU" >>,
       << "young_driver", "YOUNG_DEMO" >>,
       << "pedestrian_involved", "PEDESTRIAN" >>,
       << "aggressive_driving", "AGRESSIVE_" >>,
       << "distracted_driving", "DISTRACTED" >>,
       << "impaired_driving", "IMPAIRED_D" >>,
       << "bicycle_collision", "BICYCLE_CO" >>,
       << "intersection_related", "INTERSECTI" >> >>

CharacteristicKeys ==
    [i \in DOMAIN COLLISION_CHARACTERISTIC_FILTERS |->
        COLLISION_CHARACTERISTIC_FILTERS[i][1]]

\* display name -> folium tile name, in dict order
basemap_options ==
    << << "OpenStreetMap", "OpenStreetMap" >>,
       << "Light (Positron)", "CartoDB positron" >>,
       << "Dark (Dark Matter)", "CartoDB dark_matter" >> >>

BasemapNames == { basemap_options[i][1] : i \in DOMAIN basemap_options }

-----------------------------------------------------------------------------
(* Data loading (lines 163-234).                                           *)

\* a missing cell (NaN / NaT / None inside a frame)
NaN == << "NaN" >>

\* gdf[col].replace('', 'UNKN').fillna('UNKN'), one cell
NormalizeUnknown(v) == IF v = "" \/ v = "NaN" THEN "UNKN" ELSE v

load_street_lights_shapefile(raw) ==
    [raw EXCEPT !.rows =
        [i \in DOMAIN raw.rows |->
            [c \in DOMAIN raw.rows[i] |->
                IF c \in {"LIGHTUSE", "MAT", "SETBACK"}
                THEN NormalizeUnknown(raw.rows[i][c])
                ELSE raw.rows[i][c]]]]

bins == << 0, 56, 90, 117, 150, 195, 251, 331, 450, 708, 42587 >>

\* labels[i] = f"{bins[i]+1}<dash>{bins[i+1]}m"; the source joins the two
\* numbers with an en dash (U+2013), written "-" here
labels ==
    [i \in 1 .. (Len(bins) - 1) |->
        ToString(bins[i] + 1) \o "-" \o ToString(bins[i + 1]) \o "m"]

\* pd.cut(length, bins, labels, include_lowest=True, right=True), one value:
\* interval i is (bins[i], bins[i+1]], the first one closed on the left;
\* a value in no interval is NaN
cut(length_m) ==
    LET hits == { i \in DOMAIN labels :
                    /\ length_m <= bins[i + 1]
                    /\ \/ bins[i] < length_m
                       \/ i = 1 /\ length_m = bins[1] }
    IN  IF hits = {} THEN "NaN" ELSE labels[CHOOSE i \in hits : TRUE]

\* raw rows carry length_m, the length of the geometry in EPSG:26920
load_centrelines_shapefile(raw) ==
    [columns |-> raw.columns \cup {"length_m", "length_bucket"},
     rows |-> [i \in DOMAIN raw.rows |->
                 ("length_bucket" :> cut(raw.rows[i]["length_m"])) @@ raw.rows[i]]]

\* years for which a collisions_<year>.shp exists, ascending
get_available_collision_years ==
    SetToSortedSeq({ y \in DOMAIN collision_files : collision_files[y].exists })

-----------------------------------------------------------------------------
(* Cached filter functions (lines 325-426). The data frame each one closes *)
(* over is passed as the first argument.                                   *)

KeyError == [columns |-> {}, rows |-> << >>, raised |-> "KeyError"]

\* faulty variant: only the first selected type is matched
get_filtered_junction_data_FirstOnly(gdf, selected_junction_types_tuple) ==
    IF selected_junction_types_tuple = << >> THEN EmptyGDF
    ELSE IF "JUNCTION_T" \notin gdf.columns THEN KeyError
    ELSE IsInFilter(gdf, "JUNCTION_T", << Head(selected_junction_types_tuple) >>)

get_filtered_junction_data(gdf, selected_junction_types_tuple) ==
    IF selected_junction_types_tuple = << >> THEN EmptyGDF
    ELSE IF "JUNCTION_T" \notin gdf.columns THEN KeyError
    ELSE IsInFilter(gdf, "JUNCTION_T", selected_junction_types_tuple)

get_filtered_traffic_controls_data(gdf, selected_traffic_control_types_tuple) ==
    IF selected_traffic_control_types_tuple = << >> \/ "CONTROL_TY" \notin gdf.columns
    THEN EmptyGDF
    ELSE IsInFilter(gdf, "CONTROL_TY", selected_traffic_control_types_tuple)

get_filtered_traffic_calming_data(gdf, selected_asset_codes_tuple) ==
    IF selected_asset_codes_tuple = << >> \/ "ASSETCODE" \notin gdf.columns
    THEN EmptyGDF
    ELSE IsInFilter(gdf, "ASSETCODE", selected_asset_codes_tuple)

\* faulty variant: the second constraint is applied to the unfiltered frame
TwoColumnFilter_SecondAlone(gdf, col1, tuple1, col2, tuple2) ==
    LET after1 == IF tuple1 # << >> THEN IsInFilter(gdf, col1, tuple1) ELSE gdf
    IN  IF tuple1 # << >> /\ col1 \notin gdf.columns THEN EmptyGDF
        ELSE IF tuple2 # << >> /\ col2 \notin after1.columns THEN EmptyGDF
        ELSE IF tuple2 # << >> THEN IsInFilter(gdf, col2, tuple2)
        ELSE after1

\* lines 348-358 and 415-426: the two optional constraints, one after the other
TwoColumnFilter(gdf, col1, tuple1, col2, tuple2) ==
    LET after1 == IF tuple1 # << >> THEN IsInFilter(gdf, col1, tuple1) ELSE gdf
    IN  IF tuple1 # << >> /\ col1 \notin gdf.columns THEN EmptyGDF
        ELSE IF tuple2 # << >> /\ col2 \notin after1.columns THEN EmptyGDF
        ELSE IF tuple2 # << >> THEN IsInFilter(after1, col2, tuple2)
        ELSE after1

\* faulty variant: no early return for the empty selection
get_filtered_street_lights_data_NoGuard(gdf, selected_lightuse_tuple, selected_material_tuple) ==
    TwoColumnFilter(gdf, "LIGHTUSE", selected_lightuse_tuple,
                         "MAT", selected_material_tuple)

get_filtered_street_lights_data(gdf, selected_lightuse_tuple, selected_material_tuple) ==
    IF selected_lightuse_tuple = << >> /\ selected_material_tuple = << >>
    THEN EmptyGDF
    ELSE TwoColumnFilter(gdf, "LIGHTUSE", selected_lightuse_tuple,
                              "MAT", selected_material_tuple)

get_filtered_centrelines_data(gdf, selected_buckets_tuple, selected_st_class_tuple) ==
    IF selected_buckets_tuple = << >> /\ selected_st_class_tuple = << >>
    THEN EmptyGDF
    ELSE TwoColumnFilter(gdf, "length_bucket", selected_buckets_tuple,
                              "st_class", selected_st_class_tuple)

-----------------------------------------------------------------------------
(* Collision filtering (lines 360-407). A year file is                     *)
(* [exists, readable, columns, rows]; a date cell is << y, m, d >> when    *)
(* pd.to_datetime parses it and anything else otherwise; a flag cell is a  *)
(* sequence of characters.                                                 *)

\* pd.to_datetime(cell, errors='coerce') is not NaT
DateParses(cell) == Len(cell) = 3

\* pd.to_datetime(cell, errors='coerce').dt.year
DateYear(cell) == IF DateParses(cell) THEN cell[1] ELSE NaN

\* lines 369-374 (and 384-389): read one file, derive Year, drop undated rows
ReadYearFile(file) ==
    IF "Year" \notin file.columns /\ "ACCIDENT_D" \in file.columns
    THEN LET withYear == [i \in DOMAIN file.rows |->
                            ("Year" :> DateYear(file.rows[i]["ACCIDENT_D"]))
                            @@ file.rows[i]]
             \* dropna(subset=['Year']): Year is NaN exactly where the date is NaT
             dated == [i \in DOMAIN withYear |-> DateParses(withYear[i]["ACCIDENT_D"])]
         IN  [columns |-> file.columns \cup {"Year"},
              rows |-> MaskRows(withYear, dated)]
    ELSE [columns |-> file.columns, rows |-> file.rows]

\* faulty variant: a file that cannot be read ends the loop with nothing loaded
LoadYears_AbortsOnFailure(files, years) ==
    IF \E i \in DOMAIN years :
          /\ years[i] \in DOMAIN files
          /\ files[years[i]].exists
          /\ ~files[years[i]].readable
    THEN << >>
    ELSE Concat([i \in DOMAIN years |->
            IF years[i] \in DOMAIN files /\ files[years[i]].exists
            THEN << ReadYearFile(files[years[i]]) >> ELSE << >>])

\* the loop over years (lines 365-376 and 380-391): the frames appended
RECURSIVE LoadYears(_, _)
LoadYears(files, years) ==
    IF years = << >> THEN << >>
    ELSE LET year == Head(years)
             ok == /\ year \in DOMAIN files
                   /\ files[year].exists
                   /\ files[year].readable
         IN  (IF ok THEN << ReadYearFile(files[year]) >> ELSE << >>)
             \o LoadYears(files, Tail(years))

\* pd.concat(frames, ignore_index=True): union of the columns, NaN where a
\* frame lacks one
ConcatFrames(frames) ==
    LET cols == UNION { frames[i].columns : i \in DOMAIN frames }
        fill(r) == [c \in cols \cup DOMAIN r |-> IF c \in DOMAIN r THEN r[c] ELSE NaN]
    IN  [columns |-> cols,
         rows |-> Concat([i \in DOMAIN frames |->
                     [j \in DOMAIN frames[i].rows |-> fill(frames[i].rows[j])]])]

AnyActive(active_boolean_filters) ==
    \E k \in DOMAIN active_boolean_filters : active_boolean_filters[k]

\* lines 362-398: the frame the characteristic predicates are applied to,
\* or EmptyGDF where the function returns early
CollisionBaseData(files, available_years, selected_years_tuple, active_boolean_filters) ==
    LET current_data_frames ==
            IF selected_years_tuple # << >>
            THEN LoadYears(files, selected_years_tuple)
            ELSE IF AnyActive(active_boolean_filters)
            THEN LoadYears(files, available_years)
            ELSE << >>
        base_data_loaded == current_data_frames # << >>
        final_data == ConcatFrames(current_data_frames)
    IN  IF ~base_data_loaded THEN EmptyGDF
        ELSE IF IsEmpty(final_data) THEN EmptyGDF
        ELSE final_data

UpperChar(c) ==
    CASE c = "y" -> "Y"
      [] c = "e" -> "E"
      [] c = "s" -> "S"
      [] c = "n" -> "N"
      [] c = "o" -> "O"
      [] OTHER -> c

\* cell.fillna('N').astype(str).str.upper() in ['Y', 'YES']
IsYes(cell) ==
    LET filled == IF cell = NaN THEN << "N" >> ELSE cell
        upper == [i \in DOMAIN filled |-> UpperChar(filled[i])]
    IN  upper \in { << "Y" >>, << "Y", "E", "S" >> }

\* faulty variant: the pass ends after the first predicate it applies
RECURSIVE ApplyCharacteristicsIn_StopsAfterFirst(_, _, _, _)
ApplyCharacteristicsIn_StopsAfterFirst(filters, final_data, active_boolean_filters, i) ==
    IF i > Len(filters) THEN final_data
    ELSE LET filter_key == filters[i][1]
             column_name == filters[i][2]
             is_active == /\ filter_key \in DOMAIN active_boolean_filters
                          /\ active_boolean_filters[filter_key]
         IN  IF is_active /\ column_name \in final_data.columns
             THEN LET condition == [j \in DOMAIN final_data.rows |->
                                       IsYes(final_data.rows[j][column_name])]
                      kept == [final_data EXCEPT
                                 !.rows = MaskRows(final_data.rows, condition)]
                  IN  IF IsEmpty(kept) THEN EmptyGDF ELSE kept
             ELSE ApplyCharacteristicsIn_StopsAfterFirst(filters, final_data,
                                                        active_boolean_filters, i + 1)

\* lines 400-406: one pass over the items of the dict "filters", from entry
\* i on
RECURSIVE ApplyCharacteristicsIn(_, _, _, _)
ApplyCharacteristicsIn(filters, final_data, active_boolean_filters, i) ==
    IF i > Len(filters) THEN final_data
    ELSE LET filter_key == filters[i][1]
             column_name == filters[i][2]
             is_active == /\ filter_key \in DOMAIN active_boolean_filters
                          /\ active_boolean_filters[filter_key]
         IN  IF is_active /\ column_name \in final_data.columns
             THEN LET condition == [j \in DOMAIN final_data.rows |->
                                       IsYes(final_data.rows[j][column_name])]
                      kept == [final_data EXCEPT
                                 !.rows = MaskRows(final_data.rows, condition)]
                  IN  IF IsEmpty(kept) THEN EmptyGDF
                      ELSE ApplyCharacteristicsIn(filters, kept,
                                                  active_boolean_filters, i + 1)
             ELSE ApplyCharacteristicsIn(filters, final_data,
                                         active_boolean_filters, i + 1)

\* the pass over COLLISION_CHARACTERISTIC_FILTERS.items()
ApplyCharacteristics(final_data, active_boolean_filters, i) ==
    ApplyCharacteristicsIn(COLLISION_CHARACTERISTIC_FILTERS, final_data,
                           active_boolean_filters, i)

get_filtered_traffic_collisions_data(files, available_years, selected_years_tuple, active_boolean_filters) ==
    LET final_data == CollisionBaseData(files, available_years,
                                        selected_years_tuple, active_boolean_filters)
    IN  IF IsEmpty(final_data) THEN EmptyGDF
        ELSE IF AnyActive(active_boolean_filters)
        THEN ApplyCharacteristics(final_data, active_boolean_filters, 1)
        ELSE final_data

\* lines 236-249: rows of each available year's file, 0 where the file is
\* missing or cannot be read
get_all_collision_year_counts(files, available_years) ==
    [year_val \in Range(available_years) |->
        IF files[year_val].exists /\ files[year_val].readable
        THEN Len(files[year_val].rows)
        ELSE 0]

\* lines 259-268: the files that could be read, as they are on disk
RECURSIVE ReadAll(_, _)
ReadAll(files, years) ==
    IF years = << >> THEN << >>
    ELSE LET year == Head(years)
         IN  (IF files[year].exists /\ files[year].readable
              THEN << [columns |-> files[year].columns, rows |-> files[year].rows] >>
              ELSE << >>)
             \o ReadAll(files, Tail(years))

\* lines 251-281
get_all_collision_characteristic_counts(files, all_years) ==
    LET counts == [key \in Range(CharacteristicKeys) |-> 0]
        all_dfs == ReadAll(files, all_years)
        combined_gdf == ConcatFrames(all_dfs)
        count(column_name) ==
            Cardinality({ j \in DOMAIN combined_gdf.rows :
                            IsYes(combined_gdf.rows[j][column_name]) })
    IN  IF all_years = << >> THEN counts
        ELSE IF all_dfs = << >> THEN counts
        ELSE [key \in Range(CharacteristicKeys) |->
                LET column_name ==
                        COLLISION_CHARACTERISTIC_FILTERS[
                            CHOOSE i \in DOMAIN COLLISION_CHARACTERISTIC_FILTERS :
                                COLLISION_CHARACTERISTIC_FILTERS[i][1] = key][2]
                IN  IF column_name \in combined_gdf.columns
                    THEN count(column_name) ELSE counts[key]]

-----------------------------------------------------------------------------
(* Session state and the filter form (lines 22-47, 110-135, 284-322,       *)
(* 433-564).                                                               *)

\* the multiselect controls of the form, top to bottom:
\* widget key, session key of its Selection Set, session key of its snapshot
Controls ==
    << [key |-> "junction_type_multiselect",
        selected |-> "selected_junction_types",
        last_rendered |-> "last_rendered_junction_types"],
       [key |-> "traffic_control_type_multiselect",
        selected |-> "selected_traffic_control_types",
        last_rendered |-> "last_rendered_traffic_control_types"],
       [key |-> "traffic_collision_year_multiselect",
        selected |-> "selected_collision_years",
        last_rendered |-> "last_rendered_collision_years"],
       [key |-> "collision_characteristic_multiselect",
        selected |-> "selected_collision_characteristics",
        last_rendered |-> "last_rendered_collision_characteristics"],
       [key |-> "traffic_calming_asset_code_multiselect",
        selected |-> "selected_traffic_calming_asset_codes",
        last_rendered |-> "last_rendered_traffic_calming_asset_codes"],
       [key |-> "street_light_use_multiselect",
        selected |-> "selected_street_light_uses",
        last_rendered |-> "last_rendered_street_light_uses"],
       [key |-> "street_light_material_multiselect",
        selected |-> "selected_street_light_materials",
        last_rendered |-> "last_rendered_street_light_materials"],
       [key |-> "centreline_bucket_multiselect",
        selected |-> "selected_centreline_buckets",
        last_rendered |-> "last_rendered_centreline_buckets"],
       [key |-> "centreline_stclass_multiselect",
        selected |-> "selected_centreline_st_class",
        last_rendered |-> "last_rendered_centreline_class"] >>

WidgetKeys == { Controls[i].key : i \in DOMAIN Controls }

SelectedKeys == { Controls[i].selected : i \in DOMAIN Controls }

LastRenderedKeys == { Controls[i].last_rendered : i \in DOMAIN Controls }

ControlOf(key) == Controls[CHOOSE i \in DOMAIN Controls : Controls[i].key = key]

\* the Selection Set and the snapshot register of the i-th dimension
Live(ss, i) == ss[Controls[i].selected]

Committed(ss, i) == ss[Controls[i].last_rendered]

\* {label: 0 for label in centrelines_gdf['length_bucket'].cat.categories}
ZeroBucketCounts == [l \in Range(labels) |-> 0]

\* centrelines_gdf['length_bucket'].value_counts().to_dict()
BucketValueCounts(gdf) ==
    [l \in Range(labels) |-> ValueCount(gdf, "length_bucket", l)]

\* st.session_state after initialize_session_state() on a new session
initialize_session_state ==
    [selected_junction_types |-> << >>,
     selected_traffic_control_types |-> << >>,
     selected_collision_years |-> << >>,
     selected_collision_characteristics |-> << >>,
     selected_traffic_calming_asset_codes |-> << >>,
     selected_street_light_uses |-> << >>,
     selected_street_light_materials |-> << >>,
     show_all_selected_features |-> FALSE,
     last_rendered_junction_types |-> << >>,
     last_rendered_traffic_control_types |-> << >>,
     last_rendered_collision_years |-> << >>,
     last_rendered_collision_characteristics |-> << >>,
     last_rendered_traffic_calming_asset_codes |-> << >>,
     last_rendered_street_light_uses |-> << >>,
     last_rendered_street_light_materials |-> << >>,
     selected_centreline_buckets |-> << >>,
     last_rendered_centreline_buckets |-> << >>,
     centreline_bucket_counts |-> ZeroBucketCounts,
     selected_centreline_st_class |-> << >>,
     last_rendered_centreline_class |-> << >>,
     active_basemap |-> "OpenStreetMap"]

\* whether the form generates the control in this run (the if / else around
\* each generate_filter_control call)
ControlShown(key) ==
    CASE key = "traffic_control_type_multiselect" ->
            "CONTROL_TY" \in traffic_controls_gdf.columns
      [] key = "traffic_collision_year_multiselect" ->
            get_available_collision_years # << >>
      [] key = "traffic_calming_asset_code_multiselect" ->
            ~IsEmpty(traffic_calming_gdf) /\ "ASSETCODE" \in traffic_calming_gdf.columns
      [] key = "street_light_use_multiselect" ->
            ~IsEmpty(street_lights_gdf) /\ "LIGHTUSE" \in street_lights_gdf.columns
      [] key = "street_light_material_multiselect" ->
            ~IsEmpty(street_lights_gdf) /\ "MAT" \in street_lights_gdf.columns
      [] key = "centreline_stclass_multiselect" ->
            "st_class" \in centrelines_gdf.columns
      [] OTHER -> TRUE

ColumnValues(gdf, col) == { gdf.rows[i][col] : i \in DOMAIN gdf.rows }

\* options_list of each control, as a set
Options(key) ==
    CASE key = "junction_type_multiselect" ->
            { t \in JUNCTION_TYPE_LABELS : ValueCount(junctions_gdf, "JUNCTION_T", t) > 0 }
      [] key = "traffic_control_type_multiselect" ->
            { t \in TRAFFIC_CONTROL_TYPE_LABELS :
                ValueCount(traffic_controls_gdf, "CONTROL_TY", t) > 0 }
      [] key = "traffic_collision_year_multiselect" ->
            Range(get_available_collision_years)
      [] key = "collision_characteristic_multiselect" ->
            Range(CharacteristicKeys)
      [] key = "traffic_calming_asset_code_multiselect" ->
            { a \in Range(TRAFFIC_CALMING_ASSETCODE_LABELS) :
                ValueCount(traffic_calming_gdf, "ASSETCODE", a) > 0 }
      [] key = "street_light_use_multiselect" ->
            ColumnValues(street_lights_gdf, "LIGHTUSE")
      [] key = "street_light_material_multiselect" ->
            ColumnValues(street_lights_gdf, "MAT")
      [] key = "centreline_bucket_multiselect" ->
            { l \in Range(labels) : ValueCount(centrelines_gdf, "length_bucket", l) > 0 }
      [] key = "centreline_stclass_multiselect" ->
            ColumnValues(centrelines_gdf, "st_class")

\* default= passed to the multiselect: st.session_state.get(selected key, [])
DefaultOf(ss, key) == ss[ControlOf(key).selected]

\* st.multiselect(..., default=default, key=key) creates a new widget, holding
\* its default, when the widget's identity is new. A streamlit that derives the
\* identity from the call's parameters makes a new widget whenever default=
\* changes; one that derives it from key= alone keeps the widget and its value.
IsNewWidget(ss, key) ==
    widget_identity = "params" /\ DefaultOf(ss, key) # widget_default[key]

\* value st.multiselect returns in a run that starts with session state ss
\* and widget values ws
multiselect(ss, ws, key) ==
    IF IsNewWidget(ss, key) THEN DefaultOf(ss, key) ELSE ws[key]

\* lines 126-135 for the controls of the form (434-562) from the i-th on:
\* each control shown stores what its multiselect returned in its selected_*
\* key; with no year file the years selection is emptied (line 476)
RECURSIVE FormControls(_, _, _, _)
FormControls(ss0, ss, ws, i) ==
    IF i > Len(Controls) THEN ss
    ELSE LET key == Controls[i].key
             after ==
                 IF ControlShown(key)
                 THEN [ss EXCEPT ![Controls[i].selected] = multiselect(ss0, ws, key)]
                 ELSE IF key = "traffic_collision_year_multiselect"
                 THEN [ss EXCEPT !.selected_collision_years = << >>]
                 ELSE ss
         IN  FormControls(ss0, after, ws, i + 1)

generate_filter_control(ss, ws) == FormControls(ss, ss, ws, 1)

\* widget values, defaults and browser contents after the form was built
WidgetsAfterForm(ss, ws) ==
    [k \in WidgetKeys |-> IF ControlShown(k) THEN multiselect(ss, ws, k) ELSE ws[k]]

DefaultsAfterForm(ss) ==
    [k \in WidgetKeys |->
        IF ControlShown(k) /\ widget_identity = "params"
        THEN DefaultOf(ss, k) ELSE widget_default[k]]

PendingAfterForm(ss, pending) ==
    [k \in WidgetKeys |->
        IF ControlShown(k) /\ IsNewWidget(ss, k) THEN DefaultOf(ss, k) ELSE pending[k]]

-----------------------------------------------------------------------------
(* sorted(), str() and "_".join() as the render block uses them.           *)

\* Python's order on the strings the model uses
Collation ==
    << "1-56m", "118-150m", "151-195m", "196-251m", "252-331m", "332-450m",
       "451-708m", "57-90m", "709-42587m", "91-117m",
       "ARTERIAL", "BMPOUT", "LOCAL", "PARK", "ROW", "SPDHMP", "SPDTBL",
       "STEEL", "UNKN", "WOOD",
       "aggressive_driving", "bicycle_collision", "distracted_driving",
       "fatal_injury", "impaired_driving", "intersection_related",
       "non_fatal", "pedestrian_involved", "young_driver" >>

RankStr(v) == CHOOSE i \in DOMAIN Collation : Collation[i] = v

\* insertion into a sorted sequence; rank maps each value to its position
\* in Python's order
RECURSIVE InsertSorted(_, _, _)
InsertSorted(x, s, rank) ==
    IF s = << >> THEN << x >>
    ELSE IF rank[x] < rank[Head(s)] THEN << x >> \o s
    ELSE << Head(s) >> \o InsertSorted(x, Tail(s), rank)

RECURSIVE SortBy(_, _)
SortBy(s, rank) ==
    IF s = << >> THEN << >>
    ELSE InsertSorted(s[Len(s)], SortBy(SubSeq(s, 1, Len(s) - 1), rank), rank)

\* tuple(sorted(values)) for integer and for string values
\* faulty variant: the selection is used in the order it was picked
sorted_ints_Unsorted(values) == values

sorted_ints(values) == SortBy(values, [v \in Range(values) |-> v])

sorted_strs(values) == SortBy(values, [v \in Range(values) |-> RankStr(v)])

\* list(map(str, values))
StrInts(values) == [i \in DOMAIN values |-> ToString(values[i])]

\* "_".join(filter(None, parts))
RECURSIVE JoinNonEmpty(_)
JoinNonEmpty(parts) ==
    IF parts = << >> THEN ""
    ELSE IF Head(parts) = "" THEN JoinNonEmpty(Tail(parts))
    ELSE LET rest == JoinNonEmpty(Tail(parts))
         IN  IF rest = "" THEN Head(parts) ELSE Head(parts) \o "_" \o rest

-----------------------------------------------------------------------------
(* Render and Clear Map handlers (lines 567-607).                          *)

\* faulty variant: the submitted branch forgets the street class dimension
RenderSubmitted_SkipsStreetClass(ss) ==
    [ss EXCEPT
        !.last_rendered_junction_types = ss.selected_junction_types,
        !.last_rendered_traffic_control_types = ss.selected_traffic_control_types,
        !.last_rendered_collision_years = ss.selected_collision_years,
        !.last_rendered_collision_characteristics = ss.selected_collision_characteristics,
        !.last_rendered_traffic_calming_asset_codes = ss.selected_traffic_calming_asset_codes,
        !.last_rendered_street_light_uses = ss.selected_street_light_uses,
        !.last_rendered_street_light_materials = ss.selected_street_light_materials,
        !.last_rendered_centreline_buckets = ss.selected_centreline_buckets,
        !.show_all_selected_features = TRUE,
        !.centreline_bucket_counts = BucketValueCounts(centrelines_gdf)]

\* faulty variant: the submitted branch copies a Selection Set only when it
\* is not empty, so an emptied dimension keeps the snapshot of an older submit
RenderSubmitted_KeepsWhereEmpty(ss) ==
    LET copy(i) == IF Live(ss, i) # << >> THEN Live(ss, i) ELSE Committed(ss, i)
        byName == [n \in LastRenderedKeys |->
                     copy(CHOOSE i \in DOMAIN Controls : Controls[i].last_rendered = n)]
    IN  [n \in DOMAIN ss |->
            IF n \in LastRenderedKeys THEN byName[n]
            ELSE IF n = "show_all_selected_features" THEN TRUE
            ELSE IF n = "centreline_bucket_counts" THEN BucketValueCounts(centrelines_gdf)
            ELSE ss[n]]

\* the submitted branch: copy every Selection Set to its snapshot
RenderSubmitted(ss) ==
    [ss EXCEPT
        !.last_rendered_junction_types = ss.selected_junction_types,
        !.last_rendered_traffic_control_types = ss.selected_traffic_control_types,
        !.last_rendered_collision_years = ss.selected_collision_years,
        !.last_rendered_collision_characteristics = ss.selected_collision_characteristics,
        !.last_rendered_traffic_calming_asset_codes = ss.selected_traffic_calming_asset_codes,
        !.last_rendered_street_light_uses = ss.selected_street_light_uses,
        !.last_rendered_street_light_materials = ss.selected_street_light_materials,
        !.last_rendered_centreline_buckets = ss.selected_centreline_buckets,
        !.last_rendered_centreline_class = ss.selected_centreline_st_class,
        !.show_all_selected_features = TRUE,
        !.centreline_bucket_counts = BucketValueCounts(centrelines_gdf)]

\* faulty variant: Clear Map leaves every snapshot register as it was
ClearMap_KeepsSnapshot(ss) ==
    [ss EXCEPT
        !.show_all_selected_features = FALSE,
        !.selected_junction_types = << >>,
        !.selected_traffic_control_types = << >>,
        !.selected_collision_years = << >>,
        !.selected_collision_characteristics = << >>,
        !.selected_traffic_calming_asset_codes = << >>,
        !.selected_street_light_uses = << >>,
        !.selected_street_light_materials = << >>,
        !.selected_centreline_buckets = << >>,
        !.selected_centreline_st_class = << >>,
        !.centreline_bucket_counts = ZeroBucketCounts,
        !.active_basemap = "OpenStreetMap"]

\* the Clear Map branch
ClearMap(ss) ==
    [ss EXCEPT
        !.show_all_selected_features = FALSE,
        !.last_rendered_junction_types = << >>,
        !.last_rendered_traffic_control_types = << >>,
        !.last_rendered_collision_years = << >>,
        !.last_rendered_collision_characteristics = << >>,
        !.last_rendered_traffic_calming_asset_codes = << >>,
        !.last_rendered_street_light_uses = << >>,
        !.last_rendered_street_light_materials = << >>,
        !.last_rendered_centreline_buckets = << >>,
        !.last_rendered_centreline_class = << >>,
        !.selected_junction_types = << >>,
        !.selected_traffic_control_types = << >>,
        !.selected_collision_years = << >>,
        !.selected_collision_characteristics = << >>,
        !.selected_traffic_calming_asset_codes = << >>,
        !.selected_street_light_uses = << >>,
        !.selected_street_light_materials = << >>,
        !.selected_centreline_buckets = << >>,
        !.selected_centreline_st_class = << >>,
        !.centreline_bucket_counts = ZeroBucketCounts,
        !.active_basemap = "OpenStreetMap"]

-----------------------------------------------------------------------------
(* Map page (lines 610-820).                                               *)

\* lines 625-628
ActiveBasemapName(ss) ==
    IF ss.active_basemap \in BasemapNames THEN ss.active_basemap ELSE "OpenStreetMap"

\* faulty variant: the loop over the options does not skip the active one
TileLayers_KeepsActive(active_basemap_name) ==
    LET tilesOf(name) ==
            basemap_options[CHOOSE i \in DOMAIN basemap_options :
                                basemap_options[i][1] = name][2]
    IN  << [name |-> active_basemap_name, tiles |-> tilesOf(active_basemap_name),
            show |-> TRUE] >>
        \o [i \in DOMAIN basemap_options |->
              [name |-> basemap_options[i][1], tiles |-> basemap_options[i][2],
               show |-> FALSE]]

\* lines 634-651: the active basemap first and shown, then the others
TileLayers(active_basemap_name) ==
    LET others == SelectSeq(basemap_options, LAMBDA o : o[1] # active_basemap_name)
        tilesOf(name) ==
            basemap_options[CHOOSE i \in DOMAIN basemap_options :
                                basemap_options[i][1] = name][2]
    IN  << [name |-> active_basemap_name, tiles |-> tilesOf(active_basemap_name),
            show |-> TRUE] >>
        \o [i \in DOMAIN others |->
              [name |-> others[i][1], tiles |-> others[i][2], show |-> FALSE]]

\* row.get(column, default)
RowGet(row, column, default) ==
    IF column \in DOMAIN row THEN row[column] ELSE default

\* JUNCTION_TYPE_LABELS.get(key, default), lines 50-57
JUNCTION_TYPE_LABELS_get(key, default) ==
    CASE key = 0 -> "Non-Intersection Junction"
      [] key = 1 -> "Intersection"
      [] key = 2 -> "Dead End"
      [] key = 3 -> "Ferry Route Connection"
      [] key = 4 -> "Outer Boundary Point"
      [] key = 5 -> "Boulevard"
      [] OTHER -> default

\* TRAFFIC_CONTROL_TYPE_LABELS.get(key, default), lines 58-70
TRAFFIC_CONTROL_TYPE_LABELS_get(key, default) ==
    CASE key = 1 -> "Intersection"
      [] key = 6 -> "Signalized Intersection"
      [] key = 7 -> "RA-5 with Flashing Beacon"
      [] key = 8 -> "Overhead Flashing Beacon"
      [] key = 9 -> "RA-5 without Flashing Beacon"
      [] key = 10 -> "Rectangular Rapid Flashing Beacon"
      [] key = 11 -> "Roundabout"
      [] key = 12 -> "Lane Control"
      [] key = 13 -> "All Way Stop"
      [] key = 14 -> "Pedestrian Half Signals"
      [] key = 15 -> "Median Mounted Flashing Beacon"
      [] OTHER -> default

\* TRAFFIC_CALMING_ASSETCODE_LABELS.get(key, default), lines 71-83
TRAFFIC_CALMING_ASSETCODE_LABELS_get(key, default) ==
    CASE key = "SPDHMP" -> "Speed Humps"
      [] key = "SPDTBL" -> "Speed Tables"
      [] key = "RSDINT" -> "Raised Intersections"
      [] key = "RSDCRW" -> "Raised Crosswalks"
      [] key = "SPDCSH" -> "Speed Cushions"
      [] key = "BMPOUT" -> "Concrete curb variations: Bump-outs"
      [] key = "CTRMED" -> "Concrete curb variations: Centre Island Medians"
      [] key = "CHICAN" -> "Concrete curb variations: Chicanes"
      [] key = "BUSPTF" -> "Bus Platforms"
      [] key = "BUSBMP" -> "Bus Stop Bump Outs / Bus Bulb"
      [] key = "TRFCIR" -> "Traffic Circle"
      [] OTHER -> default

\* the keys of LIGHTUSE_LABELS, lines 85-94
LIGHTUSE_LABELS ==
    { "ROW", "PRIV", "AREA", "FLOOD", "PARK", "PARKING", "WALKWAY", "BOARDWALK" }

\* LIGHTUSE_LABELS.get(key, default)
LIGHTUSE_LABELS_get(key, default) ==
    CASE key = "ROW" -> "ROW Street Light"
      [] key = "PRIV" -> "Private Light"
      [] key = "AREA" -> "Area Light"
      [] key = "FLOOD" -> "Flood Light"
      [] key = "PARK" -> "Park Light"
      [] key = "PARKING" -> "Parking Lot Light"
      [] key = "WALKWAY" -> "Walkway Light"
      [] key = "BOARDWALK" -> "Boardwalk Light"
      [] OTHER -> default

\* The tooltip generators. A tooltip is modelled by the category label it
\* shows; its other parts are attributes and coordinates copied from the row.

\* lines 665-668
junction_tooltip_generator(row) ==
    LET label_key == row["JUNCTION_T"]
    IN  JUNCTION_TYPE_LABELS_get(label_key, "Unknown Type " \o ToString(label_key))

\* lines 678-681
control_tooltip_generator(row) ==
    LET control_type_key == row["CONTROL_TY"]
    IN  TRAFFIC_CONTROL_TYPE_LABELS_get(control_type_key,
                                        "Unknown Type " \o ToString(control_type_key))

\* lines 698-719: a collision tooltip shows no category label
collision_tooltip_generator(row) == None

\* lines 732-739: the key itself is the fallback
calming_tooltip_generator(row) ==
    LET asset_code_key == row["ASSETCODE"]
    IN  TRAFFIC_CALMING_ASSETCODE_LABELS_get(asset_code_key, asset_code_key)

\* lines 753-761: the code itself is the fallback
streetlight_tooltip_generator(row) ==
    LET lightuse_code == RowGet(row, "LIGHTUSE", "N/A")
    IN  LIGHTUSE_LABELS_get(lightuse_code, lightuse_code)

\* lines 143-161: the feature group added (none for an empty frame) and the
\* count returned; one CircleMarker per row, at the row's geometry (the row's
\* fid stands for it) and with the tooltip generated from the row; the
\* generator is passed as a function of the row
add_generic_point_layer(data_gdf, layer_name_prefix, tooltip_popup_generator_func, unique_filter_tuple_for_name) ==
    IF ~IsEmpty(data_gdf)
    THEN [layers |-> << [name |-> JoinNonEmpty(<< layer_name_prefix >>
                                               \o unique_filter_tuple_for_name),
                         features |-> Len(data_gdf.rows),
                         markers |-> [i \in DOMAIN data_gdf.rows |->
                             [location |-> data_gdf.rows[i]["fid"],
                              tooltip |-> tooltip_popup_generator_func[
                                              data_gdf.rows[i]]]]] >>,
          count |-> Len(data_gdf.rows)]
    ELSE [layers |-> << >>, count |-> 0]

NoLayer == [layers |-> << >>, count |-> 0]

JunctionsBlock(ss) ==
    IF ss.show_all_selected_features /\ ss.last_rendered_junction_types # << >>
    THEN LET selected_types_tuple == sorted_ints(ss.last_rendered_junction_types)
             filtered_junctions ==
                 get_filtered_junction_data(junctions_gdf, selected_types_tuple)
         IN  add_generic_point_layer(
                 filtered_junctions, "JunctionsLayer",
                 [row \in Range(filtered_junctions.rows) |->
                     junction_tooltip_generator(row)],
                 StrInts(selected_types_tuple))
    ELSE NoLayer

TrafficControlsBlock(ss) ==
    IF ss.show_all_selected_features /\ ss.last_rendered_traffic_control_types # << >>
    THEN LET selected_types_tuple == sorted_ints(ss.last_rendered_traffic_control_types)
             filtered_controls ==
                 get_filtered_traffic_controls_data(traffic_controls_gdf,
                                                    selected_types_tuple)
         IN  add_generic_point_layer(
                 filtered_controls, "TrafficControlsLayer",
                 [row \in Range(filtered_controls.rows) |->
                     control_tooltip_generator(row)],
                 StrInts(selected_types_tuple))
    ELSE NoLayer

\* lines 693-696
ActiveBooleanFilters(characteristics) ==
    [key \in Range(CharacteristicKeys) |-> IsIn(key, characteristics)]

CollisionsBlock(ss) ==
    IF /\ ss.show_all_selected_features
       /\ \/ ss.last_rendered_collision_years # << >>
          \/ ss.last_rendered_collision_characteristics # << >>
    THEN LET selected_years_tuple == sorted_ints(ss.last_rendered_collision_years)
             active_boolean_filters ==
                 ActiveBooleanFilters(ss.last_rendered_collision_characteristics)
             boolean_filter_names ==
                 sorted_strs(ss.last_rendered_collision_characteristics)
             filtered_collisions ==
                 get_filtered_traffic_collisions_data(
                     collision_files, get_available_collision_years,
                     selected_years_tuple, active_boolean_filters)
         IN  add_generic_point_layer(
                 filtered_collisions, "TrafficCollisionsLayer",
                 [row \in Range(filtered_collisions.rows) |->
                     collision_tooltip_generator(row)],
                 StrInts(selected_years_tuple) \o boolean_filter_names)
    ELSE NoLayer

TrafficCalmingBlock(ss) ==
    IF ss.show_all_selected_features /\ ss.last_rendered_traffic_calming_asset_codes # << >>
    THEN LET selected_asset_codes_tuple ==
                 sorted_strs(ss.last_rendered_traffic_calming_asset_codes)
             filtered_traffic_calming ==
                 get_filtered_traffic_calming_data(traffic_calming_gdf,
                                                   selected_asset_codes_tuple)
         IN  add_generic_point_layer(
                 filtered_traffic_calming, "TrafficCalmingLayer",
                 [row \in Range(filtered_traffic_calming.rows) |->
                     calming_tooltip_generator(row)],
                 selected_asset_codes_tuple)
    ELSE NoLayer

StreetLightsBlock(ss) ==
    IF /\ ss.show_all_selected_features
       /\ \/ ss.last_rendered_street_light_uses # << >>
          \/ ss.last_rendered_street_light_materials # << >>
    THEN LET selected_uses_tuple == sorted_strs(ss.last_rendered_street_light_uses)
             selected_materials_tuple ==
                 sorted_strs(ss.last_rendered_street_light_materials)
             filtered_street_lights ==
                 get_filtered_street_lights_data(street_lights_gdf,
                     selected_uses_tuple, selected_materials_tuple)
         IN  add_generic_point_layer(
                 filtered_street_lights, "StreetLightsLayer",
                 [row \in Range(filtered_street_lights.rows) |->
                     streetlight_tooltip_generator(row)],
                 selected_uses_tuple \o selected_materials_tuple)
    ELSE NoLayer

\* lines 778-791: polylines drawn for one row; "parts" is 1 for a LineString,
\* the number of parts for a MultiLineString and 0 for any other geometry
PolyLines(row) == row["parts"]

CentrelinesBlock(ss) ==
    IF /\ ss.show_all_selected_features
       /\ \/ ss.last_rendered_centreline_buckets # << >>
          \/ ss.last_rendered_centreline_class # << >>
    THEN LET selected_buckets_tuple == sorted_strs(ss.last_rendered_centreline_buckets)
             selected_st_class_tuple == sorted_strs(ss.last_rendered_centreline_class)
             filtered_centrelines ==
                 get_filtered_centrelines_data(centrelines_gdf,
                     selected_buckets_tuple, selected_st_class_tuple)
         IN  IF ~IsEmpty(filtered_centrelines)
             THEN [layers |-> << [name |-> "StreetCentrelinesLayer",
                                  features |-> SumSeq([i \in DOMAIN filtered_centrelines.rows
                                      |-> PolyLines(filtered_centrelines.rows[i])])] >>,
                   count |-> Len(filtered_centrelines.rows)]
             ELSE NoLayer
    ELSE NoLayer

\* what one complete run of the right column draws from session state ss
RenderPage(ss) ==
    LET j == JunctionsBlock(ss)
        c == TrafficControlsBlock(ss)
        x == CollisionsBlock(ss)
        t == TrafficCalmingBlock(ss)
        l == StreetLightsBlock(ss)
        s == CentrelinesBlock(ss)
    IN  [basemap |-> ActiveBasemapName(ss),
         tile_layers |-> TileLayers(ActiveBasemapName(ss)),
         layers |-> j.layers \o c.layers \o x.layers \o t.layers \o l.layers \o s.layers,
         junctions_count |-> j.count,
         controls_count |-> c.count,
         collisions_count |-> x.count,
         traffic_calming_count |-> t.count,
         street_lights_count |-> l.count,
         centrelines_count |-> s.count,
         total_points |-> j.count + c.count + x.count + t.count + l.count + s.count]

\* lines 809-816: keep the basemap the map component reports
PersistBasemap(ss, reported) ==
    IF reported # None
    THEN LET known == { i \in DOMAIN basemap_options : basemap_options[i][2] = reported }
             new_basemap_display ==
                 IF known # {}
                 THEN basemap_options[CHOOSE i \in known : TRUE][1]
                 ELSE reported
         IN  [ss EXCEPT !.active_basemap = new_basemap_display]
    ELSE ss

-----------------------------------------------------------------------------
(* The data of the viewer specification: one small instance of every file. *)

SampleJunctions ==
    [columns |-> {"JUNCTION_T"},
     rows |-> << [fid |-> 1, JUNCTION_T |-> 1], [fid |-> 2, JUNCTION_T |-> 1],
                 [fid |-> 3, JUNCTION_T |-> 2] >>]

SampleTrafficControls ==
    [columns |-> {"CONTROL_TY"},
     rows |-> << [fid |-> 1, CONTROL_TY |-> 6], [fid |-> 2, CONTROL_TY |-> 13] >>]

SampleTrafficCalming ==
    [columns |-> {"ASSETCODE"},
     rows |-> << [fid |-> 1, ASSETCODE |-> "SPDHMP"], [fid |-> 2, ASSETCODE |-> "SPDTBL"] >>]

SampleStreetLights ==
    [columns |-> {"LIGHTUSE", "MAT"},
     rows |-> << [fid |-> 1, LIGHTUSE |-> "ROW", MAT |-> "WOOD"],
                 [fid |-> 2, LIGHTUSE |-> "PARK", MAT |-> "STEEL"],
                 [fid |-> 3, LIGHTUSE |-> "ROW", MAT |-> ""] >>]

SampleCentrelines ==
    [columns |-> {"st_class"},
     rows |-> << [fid |-> 1, length_m |-> 40, st_class |-> "LOCAL", parts |-> 1],
                 [fid |-> 2, length_m |-> 100, st_class |-> "ARTERIAL", parts |-> 2] >>]

SampleCollisionFiles ==
    (2020 :> [exists |-> TRUE, readable |-> TRUE,
              columns |-> {"ACCIDENT_D", "PEDESTRIAN"},
              rows |-> << [fid |-> << 2020, 1 >>, ACCIDENT_D |-> << 2020, 6, 1 >>,
                           PEDESTRIAN |-> << "Y" >>] >>])
    @@
    (2021 :> [exists |-> TRUE, readable |-> TRUE,
              columns |-> {"ACCIDENT_D", "PEDESTRIAN"},
              rows |-> << [fid |-> << 2021, 1 >>, ACCIDENT_D |-> << 2021, 6, 1 >>,
                           PEDESTRIAN |-> << "y", "e", "s" >>],
                          [fid |-> << 2021, 2 >>, ACCIDENT_D |-> << 2021, 6, 2 >>,
                           PEDESTRIAN |-> << "n" >>] >>])

\* the options the modelled user checks and unchecks in each control
UserChoices ==
    [junction_type_multiselect |-> {1, 2},
     traffic_control_type_multiselect |-> {6},
     traffic_collision_year_multiselect |-> {2021},
     collision_characteristic_multiselect |-> {"pedestrian_involved"},
     traffic_calming_asset_code_multiselect |-> {"SPDHMP"},
     street_light_use_multiselect |-> {"ROW"},
     street_light_material_multiselect |-> {"WOOD"},
     centreline_bucket_multiselect |-> {"1-56m"},
     centreline_stclass_multiselect |-> {"LOCAL"}]

\* values the map component reports as last_tile_layer
TileReports == {"Light (Positron)", "CartoDB dark_matter", "Stamen Toner"}

BlankPage ==
    [basemap |-> None, tile_layers |-> << >>, layers |-> << >>,
     junctions_count |-> 0, controls_count |-> 0, collisions_count |-> 0,
     traffic_calming_count |-> 0, street_lights_count |-> 0,
     centrelines_count |-> 0, total_points |-> 0]

NoCall == [fn |-> "none"]

InitSession ==
    /\ session_state = initialize_session_state
    /\ widget_state = [k \in WidgetKeys |-> << >>]
    /\ widget_default = [k \in WidgetKeys |-> << >>]
    /\ form_pending = [k \in WidgetKeys |-> << >>]
    /\ last_tile_layer = None
    /\ pc = "rerun"
    /\ event = "load"
    /\ page = BlankPage
    /\ call = NoCall

Init ==
    /\ junctions_gdf = SampleJunctions
    /\ traffic_controls_gdf = SampleTrafficControls
    /\ traffic_calming_gdf = SampleTrafficCalming
    /\ street_lights_gdf = load_street_lights_shapefile(SampleStreetLights)
    /\ centrelines_gdf = load_centrelines_shapefile(SampleCentrelines)
    /\ collision_files = SampleCollisionFiles
    /\ widget_identity \in {"key", "params"}
    /\ InitSession

-----------------------------------------------------------------------------
(* User actions and script runs.                                           *)

\* line 437 reads junctions_gdf['JUNCTION_T'] with no check: without the
\* column the form raises KeyError before its first control and the run ends
FormRaises == "JUNCTION_T" \notin junctions_gdf.columns

\* the controls the form replaces by st.warning(...) in this run
FormWarnings == { k \in WidgetKeys : ~ControlShown(k) }

\* the page of a run that reached its end, and of one the form ended
RunPage(ss) == [raised |-> None, warnings |-> FormWarnings] @@ RenderPage(ss)

CrashPage == [raised |-> "KeyError", warnings |-> {}] @@ BlankPage

\* check or uncheck one option of a multiselect
Toggle(values, v) ==
    IF IsIn(v, values) THEN SelectSeq(values, LAMBDA x : x # v) ELSE Append(values, v)

TotalSelected(contents) ==
    SumSeq([i \in DOMAIN Controls |-> Len(contents[Controls[i].key])])

EditedControls(contents) == { k \in WidgetKeys : contents[k] # widget_state[k] }

\* faulty variant: a control outside any form, whose change is written to
\* the snapshot register of its dimension at once
Edit_CommitsAtOnce(key, v) ==
    /\ pc = "idle"
    /\ ~FormRaises
    /\ ControlShown(key)
    /\ v \in UserChoices[key] \cap Options(key)
    /\ LET contents == [form_pending EXCEPT ![key] = Toggle(@, v)]
       IN  /\ TotalSelected(contents) <= MaxSelected
           /\ Cardinality(EditedControls(contents)) <= MaxEdits
           /\ form_pending' = contents
           /\ session_state' =
                 [session_state EXCEPT ![ControlOf(key).last_rendered] = contents[key]]
    /\ UNCHANGED << datasets, widget_state, widget_default,
                    last_tile_layer, widget_identity, pc, event, page, call >>

\* The user changes a control of st.form("filter_form") (line 434): the
\* browser holds the change until the form is submitted; no script run.
Edit(key, v) ==
    /\ pc = "idle"
    /\ ~FormRaises
    /\ ControlShown(key)
    /\ v \in UserChoices[key] \cap Options(key)
    /\ LET contents == [form_pending EXCEPT ![key] = Toggle(@, v)]
       IN  /\ TotalSelected(contents) <= MaxSelected
           /\ Cardinality(EditedControls(contents)) <= MaxEdits
           /\ form_pending' = contents
    /\ UNCHANGED << datasets, session_state, widget_state, widget_default,
                    last_tile_layer, widget_identity, pc, event, page, call >>

\* "Render": the form contents are delivered, the script runs down to the
\* submitted branch (567-582) and asks for a re-run
Submit ==
    /\ pc = "idle"
    /\ ~FormRaises
    /\ LET delivered == form_pending
           ss == generate_filter_control(session_state, delivered)
       IN  /\ session_state' = RenderSubmitted(ss)
           /\ widget_state' = WidgetsAfterForm(session_state, delivered)
           /\ widget_default' = DefaultsAfterForm(session_state)
           /\ form_pending' = PendingAfterForm(session_state, form_pending)
    /\ pc' = "rerun"
    /\ event' = "submit"
    /\ UNCHANGED << datasets, last_tile_layer, widget_identity, page, call >>

\* "Clear Map": the script runs down to the button branch (584-607) and asks
\* for a re-run; the form contents are not delivered
Clear ==
    /\ pc = "idle"
    /\ ~FormRaises
    /\ LET ss == generate_filter_control(session_state, widget_state)
       IN  /\ session_state' = ClearMap(ss)
           /\ widget_state' = WidgetsAfterForm(session_state, widget_state)
           /\ widget_default' = DefaultsAfterForm(session_state)
           /\ form_pending' = PendingAfterForm(session_state, form_pending)
    /\ pc' = "rerun"
    /\ event' = "clear"
    /\ UNCHANGED << datasets, last_tile_layer, widget_identity, page, call >>

\* one complete script run with no button pressed: the form, the map, and
\* the basemap the component reported
FullRun(reported) ==
    IF FormRaises
    THEN /\ page' = CrashPage
         /\ pc' = "idle"
         /\ UNCHANGED << session_state, widget_state, widget_default, form_pending,
                         last_tile_layer >>
    ELSE LET ss == generate_filter_control(session_state, widget_state)
         IN  /\ page' = RunPage(ss)
             /\ session_state' = PersistBasemap(ss, reported)
             /\ widget_state' = WidgetsAfterForm(session_state, widget_state)
             /\ widget_default' = DefaultsAfterForm(session_state)
             /\ form_pending' = PendingAfterForm(session_state, form_pending)
             /\ last_tile_layer' = reported
             /\ pc' = "idle"

\* the run st.rerun() asked for (and the first run of a session); the map
\* component, created with key="folium_map", reports the value it holds
Rerun ==
    /\ pc = "rerun"
    /\ FullRun(last_tile_layer)
    /\ UNCHANGED << datasets, widget_identity, event, call >>

\* the user picks another base layer in the map's layer control: the
\* component reports it and the script runs
BasemapSwitch(tile) ==
    /\ pc = "idle"
    /\ ~FormRaises
    /\ tile # last_tile_layer
    /\ FullRun(tile)
    /\ UNCHANGED << datasets, widget_identity, event, call >>

Next ==
    \/ \E key \in WidgetKeys : \E v \in UserChoices[key] : Edit(key, v)
    \/ Submit
    \/ Clear
    \/ Rerun
    \/ \E tile \in TileReports : BasemapSwitch(tile)

Spec == Init /\ [][Next]_vars

-----------------------------------------------------------------------------
(* The filter-function specification: the files hold any contents within   *)
(* the bounds, and the cached filter functions are called directly with    *)
(* the tuples the render block can pass (sorted, without duplicates); one   *)
(* call is followed from each file contents.                               *)

\* frames of at most max rows whose cells are drawn from cells; fid = index
FramesOf(columns, cells, max) ==
    UNION { { [columns |-> columns,
               rows |-> [i \in 1 .. n |-> ("fid" :> i) @@ f[i]]] :
                 f \in [1 .. n -> cells] } : n \in 0 .. max }

JunctionFrames ==
    FramesOf({"JUNCTION_T"}, { [JUNCTION_T |-> v] : v \in {1, 2, 9} }, MaxRows)

TrafficControlFrames ==
    FramesOf({"CONTROL_TY"}, { [CONTROL_TY |-> v] : v \in {6, 13} }, MaxRows)

TrafficCalmingFrames ==
    FramesOf({"ASSETCODE"}, { [ASSETCODE |-> v] : v \in {"SPDHMP", "SPDTBL"} }, MaxRows)

StreetLightFrames ==
    FramesOf({"LIGHTUSE", "MAT"},
             { [LIGHTUSE |-> u, MAT |-> m] : u \in {"ROW", "PARK"}, m \in {"WOOD", "STEEL"} }
             \cup { [LIGHTUSE |-> "", MAT |-> "WOOD"] },
             MaxRows)

CentrelineFrames ==
    FramesOf({"st_class"},
             { [length_m |-> l, st_class |-> c, parts |-> 1] :
                 l \in {40, 100}, c \in {"LOCAL", "ARTERIAL"} },
             MaxRows)

FileYears == {2020, 2021}

\* the cells of a row of a year file: a date that parses or a missing one;
\* flags "Y", "n", "yes" (lower case) or missing
YearCells(year) ==
    { [ACCIDENT_D |-> << year, 6, 1 >>, PEDESTRIAN |-> << "Y" >>, FATAL_INJU |-> << "Y" >>],
      [ACCIDENT_D |-> << year, 6, 1 >>, PEDESTRIAN |-> << "n" >>, FATAL_INJU |-> << "Y" >>],
      [ACCIDENT_D |-> << year, 6, 1 >>, PEDESTRIAN |-> << "y", "e", "s" >>,
       FATAL_INJU |-> << "n" >>],
      [ACCIDENT_D |-> << year, 6, 1 >>, PEDESTRIAN |-> NaN, FATAL_INJU |-> << "n" >>],
      [ACCIDENT_D |-> NaN, PEDESTRIAN |-> << "Y" >>, FATAL_INJU |-> << "Y" >>] }

\* the year files: absent, unreadable, or readable with at most MaxYearRows
\* rows; a readable file has no Year column, or has one, or has no
\* PEDESTRIAN column
YearFiles(year) ==
    LET cells == YearCells(year)
        plain == UNION { { [i \in 1 .. n |-> ("fid" :> << year, i >>) @@ f[i]] :
                             f \in [1 .. n -> cells] } : n \in 0 .. MaxYearRows }
        withYear(rows) == [i \in DOMAIN rows |-> ("Year" :> year) @@ rows[i]]
        without(rows, col) ==
            [i \in DOMAIN rows |-> [c \in DOMAIN rows[i] \ {col} |-> rows[i][c]]]
    IN  { [exists |-> FALSE, readable |-> FALSE, columns |-> {}, rows |-> << >>],
          [exists |-> TRUE, readable |-> FALSE, columns |-> {}, rows |-> << >>] }
        \cup { [exists |-> TRUE, readable |-> TRUE,
                columns |-> {"ACCIDENT_D", "PEDESTRIAN", "FATAL_INJU"},
                rows |-> r] : r \in plain }
        \cup { [exists |-> TRUE, readable |-> TRUE,
                columns |-> {"ACCIDENT_D", "PEDESTRIAN", "FATAL_INJU", "Year"},
                rows |-> withYear(r)] : r \in plain }
        \cup { [exists |-> TRUE, readable |-> TRUE,
                columns |-> {"ACCIDENT_D", "FATAL_INJU"},
                rows |-> without(r, "PEDESTRIAN")] : r \in plain }

CollisionFileSets ==
    { (2020 :> a) @@ (2021 :> b) : a \in YearFiles(2020), b \in YearFiles(2021) }

RECURSIVE SetToSeq(_)
SetToSeq(S) ==
    IF S = {} THEN << >>
    ELSE LET x == CHOOSE x \in S : TRUE IN << x >> \o SetToSeq(S \ {x})

\* tuple(sorted(...)) of every selection over the values
SortedIntTuples(values) == { sorted_ints(SetToSeq(T)) : T \in SUBSET values }

SortedStrTuples(values) == { sorted_strs(SetToSeq(T)) : T \in SUBSET values }

InitFilter ==
    /\ InitSession
    /\ widget_identity = "key"
    /\ \/ /\ junctions_gdf \in JunctionFrames
          /\ traffic_controls_gdf = SampleTrafficControls
          /\ traffic_calming_gdf = SampleTrafficCalming
          /\ street_lights_gdf = load_street_lights_shapefile(SampleStreetLights)
          /\ centrelines_gdf = load_centrelines_shapefile(SampleCentrelines)
          /\ collision_files = SampleCollisionFiles
       \/ /\ junctions_gdf = SampleJunctions
          /\ traffic_controls_gdf \in TrafficControlFrames
          /\ traffic_calming_gdf = SampleTrafficCalming
          /\ street_lights_gdf = load_street_lights_shapefile(SampleStreetLights)
          /\ centrelines_gdf = load_centrelines_shapefile(SampleCentrelines)
          /\ collision_files = SampleCollisionFiles
       \/ /\ junctions_gdf = SampleJunctions
          /\ traffic_controls_gdf = SampleTrafficControls
          /\ traffic_calming_gdf \in TrafficCalmingFrames
          /\ street_lights_gdf = load_street_lights_shapefile(SampleStreetLights)
          /\ centrelines_gdf = load_centrelines_shapefile(SampleCentrelines)
          /\ collision_files = SampleCollisionFiles
       \/ /\ junctions_gdf = SampleJunctions
          /\ traffic_controls_gdf = SampleTrafficControls
          /\ traffic_calming_gdf = SampleTrafficCalming
          /\ street_lights_gdf \in
                { load_street_lights_shapefile(raw) : raw \in StreetLightFrames }
          /\ centrelines_gdf = load_centrelines_shapefile(SampleCentrelines)
          /\ collision_files = SampleCollisionFiles
       \/ /\ junctions_gdf = SampleJunctions
          /\ traffic_controls_gdf = SampleTrafficControls
          /\ traffic_calming_gdf = SampleTrafficCalming
          /\ street_lights_gdf = load_street_lights_shapefile(SampleStreetLights)
          /\ centrelines_gdf \in
                { load_centrelines_shapefile(raw) : raw \in CentrelineFrames }
          /\ collision_files = SampleCollisionFiles
       \/ /\ junctions_gdf = SampleJunctions
          /\ traffic_controls_gdf = SampleTrafficControls
          /\ traffic_calming_gdf = SampleTrafficCalming
          /\ street_lights_gdf = load_street_lights_shapefile(SampleStreetLights)
          /\ centrelines_gdf = load_centrelines_shapefile(SampleCentrelines)
          /\ collision_files \in CollisionFileSets

CallJunctions ==
    /\ call = NoCall
    /\ \E t \in SortedIntTuples({1, 2}) :
          call' = [fn |-> "get_filtered_junction_data", data |-> junctions_gdf,
                   args |-> << t >>,
                   result |-> get_filtered_junction_data(junctions_gdf, t)]
    /\ UNCHANGED << datasets, ui, widget_identity >>

CallTrafficControls ==
    /\ call = NoCall
    /\ \E t \in SortedIntTuples({6, 13}) :
          call' = [fn |-> "get_filtered_traffic_controls_data",
                   data |-> traffic_controls_gdf, args |-> << t >>,
                   result |-> get_filtered_traffic_controls_data(traffic_controls_gdf, t)]
    /\ UNCHANGED << datasets, ui, widget_identity >>

CallTrafficCalming ==
    /\ call = NoCall
    /\ \E t \in SortedStrTuples({"SPDHMP", "SPDTBL"}) :
          call' = [fn |-> "get_filtered_traffic_calming_data",
                   data |-> traffic_calming_gdf, args |-> << t >>,
                   result |-> get_filtered_traffic_calming_data(traffic_calming_gdf, t)]
    /\ UNCHANGED << datasets, ui, widget_identity >>

CallStreetLights ==
    /\ call = NoCall
    /\ \E u \in SortedStrTuples({"ROW", "PARK"}), m \in SortedStrTuples({"WOOD", "STEEL"}) :
          call' = [fn |-> "get_filtered_street_lights_data",
                   data |-> street_lights_gdf, args |-> << u, m >>,
                   result |-> get_filtered_street_lights_data(street_lights_gdf, u, m)]
    /\ UNCHANGED << datasets, ui, widget_identity >>

CallCentrelines ==
    /\ call = NoCall
    /\ \E b \in SortedStrTuples({"1-56m", "91-117m"}),
          c \in SortedStrTuples({"LOCAL", "ARTERIAL"}) :
          call' = [fn |-> "get_filtered_centrelines_data",
                   data |-> centrelines_gdf, args |-> << b, c >>,
                   result |-> get_filtered_centrelines_data(centrelines_gdf, b, c)]
    /\ UNCHANGED << datasets, ui, widget_identity >>

CallCollisions ==
    /\ call = NoCall
    /\ \E y \in SortedIntTuples(FileYears),
          chars \in SortedStrTuples({"pedestrian_involved", "fatal_injury"}) :
          LET active == ActiveBooleanFilters(chars)
          IN  call' = [fn |-> "get_filtered_traffic_collisions_data",
                       data |-> collision_files, args |-> << y, active >>,
                       base |-> CollisionBaseData(collision_files,
                                    get_available_collision_years, y, active),
                       result |-> get_filtered_traffic_collisions_data(collision_files,
                                    get_available_collision_years, y, active)]
    /\ UNCHANGED << datasets, ui, widget_identity >>

CallYearCounts ==
    /\ call = NoCall
    /\ call' = [fn |-> "get_all_collision_year_counts", data |-> collision_files,
                result |-> get_all_collision_year_counts(collision_files,
                               get_available_collision_years)]
    /\ UNCHANGED << datasets, ui, widget_identity >>

CallCharacteristicCounts ==
    /\ call = NoCall
    /\ call' = [fn |-> "get_all_collision_characteristic_counts",
                data |-> collision_files,
                result |-> get_all_collision_characteristic_counts(collision_files,
                               get_available_collision_years)]
    /\ UNCHANGED << datasets, ui, widget_identity >>

NextFilter ==
    \/ CallJunctions
    \/ CallTrafficControls
    \/ CallTrafficCalming
    \/ CallStreetLights
    \/ CallCentrelines
    \/ CallCollisions
    \/ CallYearCounts
    \/ CallCharacteristicCounts

SpecFilter == InitFilter /\ [][NextFilter]_vars

-----------------------------------------------------------------------------
(* The loaders applied to raw frames (lines 185-208).                      *)

\* lengths on and next to every bin edge, 0 and one above the last edge
EdgeLengths == Range(bins) \cup { bins[i] + 1 : i \in DOMAIN bins }

RawCentrelineFrames ==
    FramesOf({"st_class"},
             { [length_m |-> l, st_class |-> "LOCAL", parts |-> 1] : l \in EdgeLengths },
             MaxLoadRows)

RawStreetLightFrames ==
    FramesOf({"LIGHTUSE", "MAT"},
             { [LIGHTUSE |-> u, MAT |-> m] : u \in {"ROW", "", "NaN"}, m \in {"WOOD", ""} },
             MaxLoadRows)

InitLoad ==
    /\ InitSession
    /\ widget_identity = "key"
    /\ junctions_gdf = SampleJunctions
    /\ traffic_controls_gdf = SampleTrafficControls
    /\ traffic_calming_gdf = SampleTrafficCalming
    /\ street_lights_gdf = load_street_lights_shapefile(SampleStreetLights)
    /\ centrelines_gdf = load_centrelines_shapefile(SampleCentrelines)
    /\ collision_files = SampleCollisionFiles

CallLoadCentrelines ==
    /\ call = NoCall
    /\ \E raw \in RawCentrelineFrames :
          call' = [fn |-> "load_centrelines_shapefile", data |-> raw,
                   result |-> load_centrelines_shapefile(raw)]
    /\ UNCHANGED << datasets, ui, widget_identity >>

CallLoadStreetLights ==
    /\ call = NoCall
    /\ \E raw \in RawStreetLightFrames :
          call' = [fn |-> "load_street_lights_shapefile", data |-> raw,
                   result |-> load_street_lights_shapefile(raw)]
    /\ UNCHANGED << datasets, ui, widget_identity >>

NextLoad ==
    \/ CallLoadCentrelines
    \/ CallLoadStreetLights

SpecLoad == InitLoad /\ [][NextLoad]_vars

-----------------------------------------------------------------------------
(* Rendering a form filled in any order (lines 433-820): the first run of  *)
(* a session is over, the user has picked values in the controls of one    *)
(* dataset, in any order, and presses Render.                              *)

RenderJunctions ==
    [columns |-> {"JUNCTION_T"},
     rows |-> << [fid |-> 1, JUNCTION_T |-> 1], [fid |-> 2, JUNCTION_T |-> 1],
                 [fid |-> 3, JUNCTION_T |-> 2], [fid |-> 4, JUNCTION_T |-> 3] >>]

RenderTrafficControls ==
    [columns |-> {"CONTROL_TY"},
     rows |-> << [fid |-> 1, CONTROL_TY |-> 6], [fid |-> 2, CONTROL_TY |-> 13],
                 [fid |-> 3, CONTROL_TY |-> 13] >>]

RenderStreetLights ==
    [columns |-> {"LIGHTUSE", "MAT"},
     rows |-> << [fid |-> 1, LIGHTUSE |-> "ROW", MAT |-> "WOOD"],
                 [fid |-> 2, LIGHTUSE |-> "ROW", MAT |-> ""],
                 [fid |-> 3, LIGHTUSE |-> "", MAT |-> "WOOD"],
                 [fid |-> 4, LIGHTUSE |-> "PARK", MAT |-> "STEEL"] >>]

\* parts: 1 for a LineString, the number of lines of a MultiLineString
RenderCentrelines ==
    [columns |-> {"st_class"},
     rows |-> << [fid |-> 1, length_m |-> 40, st_class |-> "LOCAL", parts |-> 1],
                 [fid |-> 2, length_m |-> 100, st_class |-> "ARTERIAL", parts |-> 2],
                 [fid |-> 3, length_m |-> 50, st_class |-> "ARTERIAL", parts |-> 1] >>]

RenderCollisionFiles ==
    (2020 :> [exists |-> TRUE, readable |-> TRUE,
              columns |-> {"ACCIDENT_D", "PEDESTRIAN", "FATAL_INJU"},
              rows |-> << [fid |-> << 2020, 1 >>, ACCIDENT_D |-> << 2020, 6, 1 >>,
                           PEDESTRIAN |-> << "Y" >>, FATAL_INJU |-> << "Y" >>],
                          [fid |-> << 2020, 2 >>, ACCIDENT_D |-> << 2020, 6, 2 >>,
                           PEDESTRIAN |-> << "n" >>, FATAL_INJU |-> << "Y" >>] >>])
    @@
    (2021 :> [exists |-> TRUE, readable |-> TRUE,
              columns |-> {"ACCIDENT_D", "PEDESTRIAN", "FATAL_INJU"},
              rows |-> << [fid |-> << 2021, 1 >>, ACCIDENT_D |-> << 2021, 6, 1 >>,
                           PEDESTRIAN |-> << "y", "e", "s" >>, FATAL_INJU |-> << "n" >>],
                          [fid |-> << 2021, 2 >>, ACCIDENT_D |-> << 2021, 6, 2 >>,
                           PEDESTRIAN |-> << "Y" >>, FATAL_INJU |-> << "YES" >>] >>])

\* the values of S picked one after the other, at most n of them
RECURSIVE PickOrders(_, _)
PickOrders(S, n) ==
    IF n = 0 THEN { << >> }
    ELSE LET shorter == PickOrders(S, n - 1)
         IN  shorter \cup { Append(p, v) : p \in shorter, v \in S }

Picks(S) == { p \in PickOrders(S, MaxPicked) : Cardinality(Range(p)) = Len(p) }

NothingPicked == [k \in WidgetKeys |-> << >>]

\* form contents with the controls of one dataset filled in
FilledForms ==
    { [NothingPicked EXCEPT !["junction_type_multiselect"] = p] : p \in Picks({1, 2, 3}) }
    \cup { [NothingPicked EXCEPT !["traffic_control_type_multiselect"] = p] :
             p \in Picks({6, 13}) }
    \cup { [NothingPicked EXCEPT !["traffic_calming_asset_code_multiselect"] = p] :
             p \in Picks({"SPDHMP", "SPDTBL"}) }
    \cup { [NothingPicked EXCEPT !["traffic_collision_year_multiselect"] = y,
                                 !["collision_characteristic_multiselect"] = c] :
             y \in Picks({2020, 2021}),
             c \in Picks({"pedestrian_involved", "fatal_injury"}) }
    \cup { [NothingPicked EXCEPT !["street_light_use_multiselect"] = u,
                                 !["street_light_material_multiselect"] = m] :
             u \in Picks({"ROW", "UNKN"}), m \in Picks({"WOOD", "UNKN"}) }
    \cup { [NothingPicked EXCEPT !["centreline_bucket_multiselect"] = b,
                                 !["centreline_stclass_multiselect"] = c] :
             b \in Picks({"1-56m", "91-117m"}), c \in Picks({"LOCAL", "ARTERIAL"}) }

InitRender ==
    /\ junctions_gdf = RenderJunctions
    /\ traffic_controls_gdf = RenderTrafficControls
    /\ traffic_calming_gdf = SampleTrafficCalming
    /\ street_lights_gdf = load_street_lights_shapefile(RenderStreetLights)
    /\ centrelines_gdf = load_centrelines_shapefile(RenderCentrelines)
    /\ collision_files = RenderCollisionFiles
    /\ widget_identity = "key"
    /\ session_state = initialize_session_state
    /\ widget_state = NothingPicked
    /\ widget_default = NothingPicked
    /\ form_pending \in FilledForms
    /\ last_tile_layer = None
    /\ pc = "idle"
    /\ event = "load"
    /\ page = RunPage(initialize_session_state)
    /\ call = NoCall

NextRender ==
    \/ Submit
    \/ Rerun

SpecRender == InitRender /\ [][NextRender]_vars

-----------------------------------------------------------------------------
(* Datasets that lack filter columns (lines 325-358, 409-426, 437-562):    *)
(* the first run of a session is over and the user fills in the controls   *)
(* the form showed.                                                        *)

\* the filter columns a shapefile may come without; length_bucket is added
\* by load_centrelines_shapefile and is never missing
FileColumns == { "JUNCTION_T", "CONTROL_TY", "ASSETCODE", "LIGHTUSE", "MAT", "st_class" }

DropColumns(gdf, cols) ==
    [columns |-> gdf.columns \ cols,
     rows |-> [i \in DOMAIN gdf.rows |->
                 [c \in DOMAIN gdf.rows[i] \ cols |-> gdf.rows[i][c]]]]

\* what the user can have picked in the form the first run showed
FillableForms ==
    IF FormRaises THEN { NothingPicked }
    ELSE { f \in FilledForms :
             \A k \in WidgetKeys :
                 f[k] # << >> => (ControlShown(k) /\ Range(f[k]) \subseteq Options(k)) }

InitColumns ==
    /\ \E missing \in SUBSET FileColumns :
          /\ junctions_gdf = DropColumns(RenderJunctions, missing)
          /\ traffic_controls_gdf = DropColumns(RenderTrafficControls, missing)
          /\ traffic_calming_gdf = DropColumns(SampleTrafficCalming, missing)
          /\ street_lights_gdf =
                load_street_lights_shapefile(DropColumns(RenderStreetLights, missing))
          /\ centrelines_gdf =
                load_centrelines_shapefile(DropColumns(RenderCentrelines, missing))
    /\ collision_files = RenderCollisionFiles
    /\ widget_identity = "key"
    /\ session_state = initialize_session_state
    /\ widget_state = NothingPicked
    /\ widget_default = NothingPicked
    /\ form_pending \in FillableForms
    /\ last_tile_layer = None
    /\ pc = "idle"
    /\ event = "load"
    /\ page = IF FormRaises THEN CrashPage ELSE RunPage(initialize_session_state)
    /\ call = NoCall

NextColumns ==
    \/ Submit
    \/ Rerun

SpecColumns == InitColumns /\ [][NextColumns]_vars

-----------------------------------------------------------------------------
(* Properties of the selection state (specification Spec).                 *)

AllCommittedEmpty(ss) == \A i \in DOMAIN Controls : Committed(ss, i) = << >>

AllLiveEmpty(ss) == \A i \in DOMAIN Controls : Live(ss, i) = << >>

\* C1: in the state right after a submit (the Render handler has run and
\* asked for its re-run), every one of the nine last_rendered_* registers
\* equals the selected_* register of its dimension as the submit run set it,
\* and show_all_selected_features is true.
C1_SubmitCopiesLive ==
    (pc = "rerun" /\ event = "submit") =>
        /\ \A i \in DOMAIN Controls :
              Committed(session_state, i) = Live(session_state, i)
        /\ session_state.show_all_selected_features = TRUE

\* a submit that committed a non-empty selection
C1_Witness ==
    /\ pc = "rerun"
    /\ event = "submit"
    /\ session_state.show_all_selected_features
    /\ \E i \in DOMAIN Controls :
          /\ Committed(session_state, i) # << >>
          /\ Committed(session_state, i) = form_pending[Controls[i].key]

\* a step in which the user edits a control and nothing is submitted
EditStep == pc = "idle" /\ pc' = "idle" /\ form_pending' # form_pending

\* C2: an edit without a submit changes one control only and leaves every
\* last_rendered_* register, the show flag, the layers drawn on the map and
\* the selected_* register of every other dimension as they were, however
\* many edits follow one another.
C2_EditLeavesMapAlone ==
    [][EditStep =>
          /\ Cardinality({ k \in WidgetKeys : form_pending'[k] # form_pending[k] }) = 1
          /\ \A i \in DOMAIN Controls :
                /\ Committed(session_state', i) = Committed(session_state, i)
                /\ form_pending'[Controls[i].key] = form_pending[Controls[i].key]
                      => Live(session_state', i) = Live(session_state, i)
          /\ session_state'.show_all_selected_features
                = session_state.show_all_selected_features
          /\ page'.layers = page.layers
          /\ page'.total_points = page.total_points]_vars

\* the form was edited after a render: the map still shows the committed layers
C2_Witness ==
    /\ pc = "idle"
    /\ event = "submit"
    /\ form_pending # widget_state
    /\ page.layers # << >>
    /\ page.layers = RenderPage(session_state).layers

\* the snapshot is all empty, or is the form contents of one submit as a whole
SnapshotWhole ==
    \/ AllCommittedEmpty(session_state)
    \/ \A i \in DOMAIN Controls :
          Committed(session_state, i) = widget_state[Controls[i].key]

\* C3: a last_rendered_* register changes only in a submit step, where all
\* nine become the selected_* registers, or in a clear step, where all nine
\* become empty; in every state the nine registers are all empty or are the
\* form contents of one single submit.
C3_SnapshotAtomic ==
    /\ []SnapshotWhole
    /\ [][(\E i \in DOMAIN Controls :
              Committed(session_state', i) # Committed(session_state, i))
          => /\ pc = "idle"
             /\ pc' = "rerun"
             /\ \/ /\ event' = "submit"
                   /\ \A i \in DOMAIN Controls :
                         Committed(session_state', i) = Live(session_state', i)
                \/ /\ event' = "clear"
                   /\ AllCommittedEmpty(session_state')]_vars

\* a clear that emptied a snapshot taken by an earlier submit
C3_Witness ==
    /\ pc = "rerun"
    /\ event = "clear"
    /\ AllCommittedEmpty(session_state)
    /\ \E k \in WidgetKeys : widget_state[k] # << >>

\* C4: once Clear Map and the re-run it asks for have completed, every
\* selected_* and every last_rendered_* register is empty and the show flag
\* is false.
C4_ClearEmptiesEverything ==
    (pc = "idle" /\ event = "clear") =>
        /\ AllLiveEmpty(session_state)
        /\ AllCommittedEmpty(session_state)
        /\ session_state.show_all_selected_features = FALSE

\* C5: the re-run that follows Clear Map builds the map with "OpenStreetMap"
\* and ends with active_basemap = "OpenStreetMap", whatever the user had
\* switched to and whatever the map component reports.
C5_ClearResetsBasemap ==
    [][(pc = "rerun" /\ event = "clear" /\ pc' = "idle") =>
          /\ page'.basemap = "OpenStreetMap"
          /\ session_state'.active_basemap = "OpenStreetMap"]_vars

\* C6: whenever the show flag is false every last_rendered_* register is
\* empty, and a page drawn with the flag false (after Clear Map in
\* particular) has no feature layer, six counts of 0 and a total of 0.
C6_NothingShownWhenCleared ==
    /\ ~session_state.show_all_selected_features => AllCommittedEmpty(session_state)
    /\ (pc = "idle" /\ ~session_state.show_all_selected_features) =>
          /\ page.layers = << >>
          /\ page.junctions_count = 0
          /\ page.controls_count = 0
          /\ page.collisions_count = 0
          /\ page.traffic_calming_count = 0
          /\ page.street_lights_count = 0
          /\ page.centrelines_count = 0
          /\ page.total_points = 0

\* the page after Clear Map, in a session where a selection had been rendered
C6_Witness ==
    /\ pc = "idle"
    /\ event = "clear"
    /\ ~session_state.show_all_selected_features
    /\ \E k \in WidgetKeys : widget_state[k] # << >>
    /\ page.total_points = 0
    /\ page.layers = << >>

-----------------------------------------------------------------------------
(* Properties of the filter functions (specification SpecFilter).          *)

Fids(rows) == { rows[i]["fid"] : i \in DOMAIN rows }

FidSeq(rows) == [i \in DOMAIN rows |-> rows[i]["fid"]]

\* every row of the result is a row of the data, and no row is there twice
RowsOnceFrom(result, data) ==
    /\ \A i \in DOMAIN result.rows : \E j \in DOMAIN data.rows : result.rows[i] = data.rows[j]
    /\ Cardinality(Fids(result.rows)) = Len(result.rows)

IsCollisionCall == call.fn = "get_filtered_traffic_collisions_data"

IsTwoColumnCall ==
    call.fn \in {"get_filtered_street_lights_data", "get_filtered_centrelines_data"}

IsOneColumnCall ==
    call.fn \in {"get_filtered_junction_data", "get_filtered_traffic_controls_data",
                 "get_filtered_traffic_calming_data"}

\* the call was made with every dimension's selection empty
EmptySelectionCall ==
    \/ IsOneColumnCall /\ call.args[1] = << >>
    \/ IsTwoColumnCall /\ call.args[1] = << >> /\ call.args[2] = << >>
    \/ IsCollisionCall /\ call.args[1] = << >> /\ ~AnyActive(call.args[2])

\* C7: each of the six filter functions, called with every dimension's
\* selection empty (collisions: no year, no characteristic), returns an
\* empty result whatever the data holds.
C7_EmptySelectionEmptyResult ==
    EmptySelectionCall => call.result.rows = << >>

\* street lights with rows, filtered with no use and no material
C7_Witness ==
    /\ call.fn = "get_filtered_street_lights_data"
    /\ EmptySelectionCall
    /\ Len(call.data.rows) >= 2
    /\ call.result.rows = << >>

FilterColumn ==
    CASE call.fn = "get_filtered_junction_data" -> "JUNCTION_T"
      [] call.fn = "get_filtered_traffic_controls_data" -> "CONTROL_TY"
      [] call.fn = "get_filtered_traffic_calming_data" -> "ASSETCODE"

\* C8: a single-dimension filter called with a non-empty selection S returns
\* exactly the rows of the data whose attribute is one of S, each once and
\* unchanged, so its size is the sum over the values of S of the number of
\* rows that carry the value.
C8_EqualityFilterExact ==
    (IsOneColumnCall /\ call.args[1] # << >>) =>
        LET S == call.args[1]
            matching == { i \in DOMAIN call.data.rows :
                            call.data.rows[i][FilterColumn] \in Range(S) }
        IN  /\ Fids(call.result.rows) = { call.data.rows[i]["fid"] : i \in matching }
            /\ RowsOnceFrom(call.result, call.data)
            /\ Len(call.result.rows)
                  = SumSeq([k \in DOMAIN S |-> ValueCount(call.data, FilterColumn, S[k])])

\* junction types (1, 2) selected in data that holds both and a third type
C8_Witness ==
    /\ call.fn = "get_filtered_junction_data"
    /\ call.args[1] = << 1, 2 >>
    /\ ValueCount(call.data, "JUNCTION_T", 1) = 2
    /\ ValueCount(call.data, "JUNCTION_T", 2) = 1
    /\ Len(call.result.rows) = 2 + 1

TwoColumns ==
    IF call.fn = "get_filtered_street_lights_data"
    THEN << "LIGHTUSE", "MAT" >> ELSE << "length_bucket", "st_class" >>

\* the same function on the same data with other selections
TwoColumnResult(t1, t2) ==
    IF call.fn = "get_filtered_street_lights_data"
    THEN get_filtered_street_lights_data(call.data, t1, t2)
    ELSE get_filtered_centrelines_data(call.data, t1, t2)

\* C9: a two-dimension filter returns nothing when neither dimension is
\* selected, exactly the rows matching the selected dimension when one is,
\* and exactly the rows matching both when both are: the rows common to the
\* two single-dimension results.
C9_TwoDimensionFilter ==
    IsTwoColumnCall =>
        LET t1 == call.args[1]
            t2 == call.args[2]
            wanted == { i \in DOMAIN call.data.rows :
                          /\ t1 # << >> => call.data.rows[i][TwoColumns[1]] \in Range(t1)
                          /\ t2 # << >> => call.data.rows[i][TwoColumns[2]] \in Range(t2) }
        IN  /\ (t1 = << >> /\ t2 = << >>) => call.result.rows = << >>
            /\ (t1 # << >> \/ t2 # << >>) =>
                  /\ Fids(call.result.rows) = { call.data.rows[i]["fid"] : i \in wanted }
                  /\ RowsOnceFrom(call.result, call.data)
            /\ (t1 # << >> /\ t2 # << >>) =>
                  Fids(call.result.rows)
                     = Fids(TwoColumnResult(t1, << >>).rows)
                          \cap Fids(TwoColumnResult(<< >>, t2).rows)

\* both dimensions selected, and each of them alone would let more rows through
C9_Witness ==
    /\ IsTwoColumnCall
    /\ call.args[1] # << >>
    /\ call.args[2] # << >>
    /\ call.result.rows # << >>
    /\ Len(TwoColumnResult(call.args[1], << >>).rows) > Len(call.result.rows)
    /\ Len(TwoColumnResult(<< >>, call.args[2]).rows) > Len(call.result.rows)

\* all rows of the files of these years that exist and can be read, in order
RECURSIVE RowsOfYears(_, _)
RowsOfYears(files, years) ==
    IF years = << >> THEN << >>
    ELSE LET y == Head(years)
         IN  (IF y \in DOMAIN files /\ files[y].exists /\ files[y].readable
              THEN files[y].rows ELSE << >>)
             \o RowsOfYears(files, Tail(years))

AvailableYearsOf(files) ==
    SetToSortedSeq({ y \in DOMAIN files : files[y].exists })

\* C10: the rows the characteristic predicates are applied to are all rows
\* of the selected years' files and no others when a year is selected, and
\* all rows of every available year's file when no year is selected and a
\* characteristic is active; no row of a file that was read is dropped.
C10_CandidateRowsComplete ==
    IsCollisionCall =>
        LET years == call.args[1]
            active == call.args[2]
        IN  /\ years # << >> =>
                  FidSeq(call.base.rows) = FidSeq(RowsOfYears(call.data, years))
            /\ (years = << >> /\ AnyActive(active)) =>
                  FidSeq(call.base.rows)
                     = FidSeq(RowsOfYears(call.data, AvailableYearsOf(call.data)))

\* the flag cells that equal "Y" or "YES" when case is ignored
YesCells ==
    { << "Y" >>, << "y" >> }
    \cup { << a, b, c >> : a \in {"Y", "y"}, b \in {"E", "e"}, c \in {"S", "s"} }

\* the characteristics of the call that are selected, as << key, column >>
SelectedCharacteristics ==
    { COLLISION_CHARACTERISTIC_FILTERS[i] : i \in
        { i \in DOMAIN COLLISION_CHARACTERISTIC_FILTERS :
            call.args[2][COLLISION_CHARACTERISTIC_FILTERS[i][1]] } }

\* C11: with a characteristic selected, a candidate row is in the result of
\* get_filtered_traffic_collisions_data exactly when, for every selected
\* characteristic, the row has the flag column and its cell is "Y" or "YES"
\* in any case; a row whose flag is "n" or missing, or whose flag column is
\* not in the data, is left out.
C11_CharacteristicFlags ==
    (IsCollisionCall /\ AnyActive(call.args[2])) =>
        Fids(call.result.rows) =
            { call.base.rows[i]["fid"] : i \in
                { i \in DOMAIN call.base.rows :
                    \A kc \in SelectedCharacteristics :
                        /\ kc[2] \in call.base.columns
                        /\ call.base.rows[i][kc[2]] \in YesCells } }

\* the items of COLLISION_CHARACTERISTIC_FILTERS with the selected ones
\* in every order
CharacteristicOrders ==
    LET selected == SelectSeq(COLLISION_CHARACTERISTIC_FILTERS,
                              LAMBDA kc : call.args[2][kc[1]])
        others == SelectSeq(COLLISION_CHARACTERISTIC_FILTERS,
                            LAMBDA kc : ~call.args[2][kc[1]])
    IN  { [i \in DOMAIN selected |-> selected[p[i]]] \o others :
            p \in Permutations(DOMAIN selected) }

\* the candidate rows after the predicate of one characteristic alone
AfterOne(filter_key) ==
    ApplyCharacteristicsIn(
        SelectSeq(COLLISION_CHARACTERISTIC_FILTERS, LAMBDA kc : kc[1] = filter_key),
        call.base, call.args[2], 1)

\* C19: for any candidate rows and any selected characteristics, applying
\* the selected predicates in any order gives the result the function
\* returns, also when a step leaves no rows and the pass ends early with an
\* empty result.
C19_CharacteristicOrderFree ==
    (IsCollisionCall /\ ~IsEmpty(call.base) /\ AnyActive(call.args[2])) =>
        \A filters \in CharacteristicOrders :
            ApplyCharacteristicsIn(filters, call.base, call.args[2], 1) = call.result

\* C19 witness: both characteristics are selected and have their columns,
\* each predicate alone keeps rows, the two keep different rows, and the
\* result is smaller than either.
C19_Witness ==
    /\ IsCollisionCall
    /\ ~IsEmpty(call.base)
    /\ call.args[2]["pedestrian_involved"] /\ call.args[2]["fatal_injury"]
    /\ {"PEDESTRIAN", "FATAL_INJU"} \subseteq call.base.columns
    /\ ~IsEmpty(AfterOne("pedestrian_involved"))
    /\ ~IsEmpty(AfterOne("fatal_injury"))
    /\ AfterOne("pedestrian_involved") # AfterOne("fatal_injury")
    /\ call.result # AfterOne("pedestrian_involved")
    /\ call.result # AfterOne("fatal_injury")

\* the same call for one year alone, with the characteristics of the call
ResultForYear(year) ==
    get_filtered_traffic_collisions_data(call.data, AvailableYearsOf(call.data),
                                         << year >>, call.args[2])

\* C12: for two distinct available years a and b and any characteristic
\* selection, the result for (a, b) holds exactly the rows of the result for
\* a alone and the rows of the result for b alone, each once, and no others.
C12_YearUnion ==
    (/\ IsCollisionCall
     /\ Len(call.args[1]) = 2
     /\ \A k \in 1 .. 2 : call.data[call.args[1][k]].exists) =>
        LET a == call.args[1][1]
            b == call.args[1][2]
        IN  /\ Fids(call.result.rows)
                  = Fids(ResultForYear(a).rows) \cup Fids(ResultForYear(b).rows)
            /\ Cardinality(Fids(call.result.rows)) = Len(call.result.rows)
            /\ Len(call.result.rows)
                  = Len(ResultForYear(a).rows) + Len(ResultForYear(b).rows)

\* the lengths the label of bucket i names: bins[i]+1 .. bins[i+1], and 0
\* with the first
LabelRange(i) == (IF i = 1 THEN 0 ELSE bins[i] + 1) .. bins[i + 1]

\* C13: the ten bucket ranges follow one another with no gap and no
\* overlap, and load_centrelines_shapefile gives every feature, whatever its
\* length (0, a length on a bin edge, a length above 42587), exactly one of
\* the ten bucket labels: the one whose range holds the length.
C13_BucketsPartition ==
    call.fn = "load_centrelines_shapefile" =>
        /\ \A i \in 1 .. (Len(labels) - 1) :
              /\ bins[i + 1] + 1 \in LabelRange(i + 1)
              /\ LabelRange(i) \cap LabelRange(i + 1) = {}
        /\ \A r \in DOMAIN call.result.rows :
              LET row == call.result.rows[r]
                  holding == { i \in DOMAIN labels : row["length_m"] \in LabelRange(i) }
              IN  /\ Cardinality(holding) = 1
                  /\ \E i \in holding : row["length_bucket"] = labels[i]

\* the files of the call that exist and cannot be read
FailingYears ==
    { y \in DOMAIN call.data : call.data[y].exists /\ ~call.data[y].readable }

\* the files of the call, each failing one replaced by a file with no rows
FailingAsEmpty ==
    [y \in DOMAIN call.data |->
        IF y \in FailingYears
        THEN [exists |-> TRUE, readable |-> TRUE, columns |-> {}, rows |-> << >>]
        ELSE call.data[y]]

\* rows of a file whose flag in a column is "Y" or "YES" in any case
YesRows(file, column_name) ==
    IF column_name \in file.columns
    THEN Cardinality({ j \in DOMAIN file.rows : file.rows[j][column_name] \in YesCells })
    ELSE 0

\* C16: a year file that cannot be read aborts nothing and counts as a file
\* with no rows: its year count is 0 and every other year's count is the
\* rows of its file; the characteristic totals are the sums over the files
\* that can be read; collision filtering returns what it returns with the
\* failing files empty.
C16_ReadFailureIsZero ==
    /\ call.fn = "get_all_collision_year_counts" =>
          /\ DOMAIN call.result = { y \in DOMAIN call.data : call.data[y].exists }
          /\ \A y \in DOMAIN call.result :
                call.result[y] = IF y \in FailingYears THEN 0
                                 ELSE Len(call.data[y].rows)
    /\ call.fn = "get_all_collision_characteristic_counts" =>
          \A i \in DOMAIN COLLISION_CHARACTERISTIC_FILTERS :
              LET kc == COLLISION_CHARACTERISTIC_FILTERS[i]
                  years == SetToSortedSeq({ y \in DOMAIN call.data :
                               call.data[y].exists /\ y \notin FailingYears })
              IN  call.result[kc[1]]
                     = SumSeq([k \in DOMAIN years |-> YesRows(call.data[years[k]], kc[2])])
    /\ IsCollisionCall =>
          call.result = get_filtered_traffic_collisions_data(
                            FailingAsEmpty, AvailableYearsOf(call.data),
                            call.args[1], call.args[2])

\* both years selected, one file cannot be read, the other's rows are returned
C16_Witness ==
    /\ IsCollisionCall
    /\ Len(call.args[1]) = 2
    /\ FailingYears # {}
    /\ call.result.rows # << >>

\* the number of collision features drawn when the committed selection is
\* the years and characteristics given: the count add_generic_point_layer
\* returns for the frame of get_filtered_traffic_collisions_data
RenderedAlone(years, characteristics) ==
    LET filtered_collisions ==
            get_filtered_traffic_collisions_data(call.data, AvailableYearsOf(call.data),
                years, ActiveBooleanFilters(characteristics))
    IN  add_generic_point_layer(
            filtered_collisions, "TrafficCollisionsLayer",
            [row \in Range(filtered_collisions.rows) |-> collision_tooltip_generator(row)],
            StrInts(years) \o characteristics).count

\* the year part of C22
YearLabelsAgree ==
    call.fn = "get_all_collision_year_counts" =>
        \A y \in DOMAIN call.result :
            call.result[y] = RenderedAlone(<< y >>, << >>)

\* the characteristic part of C22
CharacteristicLabelsAgree ==
    call.fn = "get_all_collision_characteristic_counts" =>
        \A c \in DOMAIN call.result :
            call.result[c] = RenderedAlone(<< >>, << c >>)

\* C22: for any contents of the year files, the count in the label of year
\* y is the number of collision features drawn when only y is committed,
\* and the total in the label of characteristic c is the number drawn when
\* only c and no year is committed.
C22_LabelCountsAgree ==
    YearLabelsAgree /\ CharacteristicLabelsAgree

-----------------------------------------------------------------------------
(* Properties of the layers drawn (specification SpecRender).              *)

\* the six datasets, in the order their blocks are run
DatasetBlocks(ss) ==
    << JunctionsBlock(ss), TrafficControlsBlock(ss), CollisionsBlock(ss),
       TrafficCalmingBlock(ss), StreetLightsBlock(ss), CentrelinesBlock(ss) >>

\* the committed selection of each dataset, one set per dimension
DatasetSelections(ss) ==
    << << Range(ss.last_rendered_junction_types) >>,
       << Range(ss.last_rendered_traffic_control_types) >>,
       << Range(ss.last_rendered_collision_years),
          Range(ss.last_rendered_collision_characteristics) >>,
       << Range(ss.last_rendered_traffic_calming_asset_codes) >>,
       << Range(ss.last_rendered_street_light_uses),
          Range(ss.last_rendered_street_light_materials) >>,
       << Range(ss.last_rendered_centreline_buckets),
          Range(ss.last_rendered_centreline_class) >> >>

\* session state right after the form contents f were submitted in a new session
SubmittedState(f) ==
    RenderSubmitted(generate_filter_control(initialize_session_state, f))

\* the page of a submitted form has been drawn
PageDrawn == pc = "idle" /\ event = "submit"

LayerNames(block) == { block.layers[i].name : i \in DOMAIN block.layers }

\* C14: a dataset's layer name is decided by the dataset and its committed
\* selection: the same selection gives the same name, two different
\* selections of one dataset give different names, and layers of different
\* datasets never have the same name.
C14_LayerNamesDistinct ==
    PageDrawn =>
        \A f \in FilledForms :
            LET mine == DatasetBlocks(session_state)
                other == DatasetBlocks(SubmittedState(f))
                mySel == DatasetSelections(session_state)
                otherSel == DatasetSelections(SubmittedState(f))
            IN  /\ \A d \in 1 .. 6 :
                      (mine[d].layers # << >> /\ other[d].layers # << >>) =>
                          (LayerNames(mine[d]) = LayerNames(other[d])
                              <=> mySel[d] = otherSel[d])
                /\ \A d, e \in 1 .. 6 :
                      d # e => LayerNames(mine[d]) \cap LayerNames(other[e]) = {}

\* the six counts of the page, in the order of the blocks
PageCounts ==
    << page.junctions_count, page.controls_count, page.collisions_count,
       page.traffic_calming_count, page.street_lights_count, page.centrelines_count >>

\* C15: for every dataset, centrelines included, the count reported equals
\* the number of markers or polylines added to its layer, the count is 0
\* exactly when no layer is added, and no layer without features is added.
C15_CountIsFeaturesAdded ==
    PageDrawn =>
        LET blocks == DatasetBlocks(session_state)
        IN  /\ page.layers = Concat([d \in 1 .. 6 |-> blocks[d].layers])
            /\ \A d \in 1 .. 6 :
                  /\ PageCounts[d] = blocks[d].count
                  /\ PageCounts[d]
                        = SumSeq([i \in DOMAIN blocks[d].layers |->
                                    blocks[d].layers[i].features])
                  /\ PageCounts[d] = 0 <=> blocks[d].layers = << >>
            /\ \A i \in DOMAIN page.layers : page.layers[i].features > 0

\* the tuples each render block passes to its filter function (lines 663,
\* 676, 692-696, 730, 750-751, 773-774), in the order of the blocks
FilterArguments(ss) ==
    << << sorted_ints(ss.last_rendered_junction_types) >>,
       << sorted_ints(ss.last_rendered_traffic_control_types) >>,
       << sorted_ints(ss.last_rendered_collision_years),
          ActiveBooleanFilters(ss.last_rendered_collision_characteristics) >>,
       << sorted_strs(ss.last_rendered_traffic_calming_asset_codes) >>,
       << sorted_strs(ss.last_rendered_street_light_uses),
          sorted_strs(ss.last_rendered_street_light_materials) >>,
       << sorted_strs(ss.last_rendered_centreline_buckets),
          sorted_strs(ss.last_rendered_centreline_class) >> >>

\* the forms that hold the values of the committed selection, in any order
Reorderings ==
    { f \in FilledForms :
        DatasetSelections(SubmittedState(f)) = DatasetSelections(session_state) }

\* C20: for every dataset, a committed selection and any selection with the
\* same values in another order give the same filter arguments, the same
\* rows drawn, the same count and the same layer name.
C20_SelectionOrderFree ==
    PageDrawn =>
        \A f \in Reorderings :
            /\ FilterArguments(SubmittedState(f)) = FilterArguments(session_state)
            /\ \A d \in 1 .. 6 :
                  LET mine == DatasetBlocks(session_state)[d]
                      other == DatasetBlocks(SubmittedState(f))[d]
                  IN  /\ other.count = mine.count
                      /\ LayerNames(other) = LayerNames(mine)
                      /\ other.layers = mine.layers
            /\ RenderPage(SubmittedState(f)).layers = page.layers

\* C20 witness: a page is drawn for two junction types picked in descending
\* order, its layer has markers, and the same two types can be picked in
\* the other order.
C20_Witness ==
    /\ PageDrawn
    /\ Len(session_state.last_rendered_junction_types) = 2
    /\ session_state.last_rendered_junction_types[1]
          > session_state.last_rendered_junction_types[2]
    /\ page.junctions_count > 0
    /\ \E f \in Reorderings :
          SubmittedState(f).last_rendered_junction_types
             # session_state.last_rendered_junction_types

\* the markers drawn for dataset d
DrawnMarkers(d) ==
    UNION { Range(layer.markers) :
              layer \in { l \in Range(page.layers) :
                            l \in Range(DatasetBlocks(session_state)[d].layers) } }

\* the category code of the row a marker was made from
CodeOf(gdf, column, marker) ==
    (CHOOSE row \in Range(gdf.rows) : row["fid"] = marker.location)[column]

\* a synthesized label that names the code
IsUnknownLabel(label, code) ==
    label \in { "Unknown " \o code, "Unknown Type " \o code }

\* C18: on a drawn page, every marker of a dataset with a label table
\* (junction type, control type, calming asset code, light use) whose row
\* has a code that the table lacks shows a synthesized "Unknown ... {code}"
\* label: not the bare code and not an empty value.
C18_UnknownCodeLabelled ==
    PageDrawn =>
        /\ \A marker \in DrawnMarkers(1) :
              LET code == CodeOf(junctions_gdf, "JUNCTION_T", marker)
              IN  code \notin JUNCTION_TYPE_LABELS
                      => IsUnknownLabel(marker.tooltip, ToString(code))
        /\ \A marker \in DrawnMarkers(2) :
              LET code == CodeOf(traffic_controls_gdf, "CONTROL_TY", marker)
              IN  code \notin TRAFFIC_CONTROL_TYPE_LABELS
                      => IsUnknownLabel(marker.tooltip, ToString(code))
        /\ \A marker \in DrawnMarkers(4) :
              LET code == CodeOf(traffic_calming_gdf, "ASSETCODE", marker)
              IN  code \notin Range(TRAFFIC_CALMING_ASSETCODE_LABELS)
                      => IsUnknownLabel(marker.tooltip, code)
        /\ \A marker \in DrawnMarkers(5) :
              LET code == CodeOf(street_lights_gdf, "LIGHTUSE", marker)
              IN  code \notin LIGHTUSE_LABELS
                      => IsUnknownLabel(marker.tooltip, code)

-----------------------------------------------------------------------------
(* Properties of runs on datasets that lack columns (SpecColumns).         *)

\* each filter column with its dataset, its control and its filter function
\* called with a selection
ColumnControls ==
    { [column |-> "JUNCTION_T", key |-> "junction_type_multiselect",
       lacking |-> "JUNCTION_T" \notin junctions_gdf.columns,
       filtered |-> get_filtered_junction_data(junctions_gdf, << 1 >>)],
      [column |-> "CONTROL_TY", key |-> "traffic_control_type_multiselect",
       lacking |-> "CONTROL_TY" \notin traffic_controls_gdf.columns,
       filtered |-> get_filtered_traffic_controls_data(traffic_controls_gdf, << 6 >>)],
      [column |-> "ASSETCODE", key |-> "traffic_calming_asset_code_multiselect",
       lacking |-> "ASSETCODE" \notin traffic_calming_gdf.columns,
       filtered |-> get_filtered_traffic_calming_data(traffic_calming_gdf, << "SPDHMP" >>)],
      [column |-> "LIGHTUSE", key |-> "street_light_use_multiselect",
       lacking |-> "LIGHTUSE" \notin street_lights_gdf.columns,
       filtered |-> get_filtered_street_lights_data(street_lights_gdf, << "ROW" >>, << >>)],
      [column |-> "MAT", key |-> "street_light_material_multiselect",
       lacking |-> "MAT" \notin street_lights_gdf.columns,
       filtered |-> get_filtered_street_lights_data(street_lights_gdf, << >>, << "WOOD" >>)],
      [column |-> "length_bucket", key |-> "centreline_bucket_multiselect",
       lacking |-> "length_bucket" \notin centrelines_gdf.columns,
       filtered |-> get_filtered_centrelines_data(centrelines_gdf, << "1-56m" >>, << >>)],
      [column |-> "st_class", key |-> "centreline_stclass_multiselect",
       lacking |-> "st_class" \notin centrelines_gdf.columns,
       filtered |-> get_filtered_centrelines_data(centrelines_gdf, << >>, << "LOCAL" >>)] }

\* C17: when a loaded dataset lacks one of its filter columns a page run
\* raises nothing, the column's control is replaced by a warning, the
\* column's filter function returns an empty result, and the controls of
\* the columns that are there and the layers of the committed selections
\* are still produced.
C17_MissingColumnDegrades ==
    pc = "idle" =>
        \A cc \in ColumnControls :
            cc.lacking =>
                /\ page.raised = None
                /\ cc.key \in page.warnings
                /\ cc.filtered = EmptyGDF
                /\ \A other \in ColumnControls :
                      ~other.lacking => other.key \notin page.warnings
                /\ page.layers
                      = Concat([d \in 1 .. 6 |-> DatasetBlocks(session_state)[d].layers])

-----------------------------------------------------------------------------
(* Properties of the base map (specification Spec).                        *)

\* the base tile layers of the page that are marked shown
ShownTileLayers == { i \in DOMAIN page.tile_layers : page.tile_layers[i].show }

\* C21: after every page run, whatever active basemap is stored and whatever
\* tile layer the map component reported (a display name, a tile-provider
\* name or an unrecognised string), the map is built with one of the three
\* named options, exactly one base tile layer is marked shown, and each of
\* the three options is in the layer control exactly once, with its tiles.
C21_BasemapWellFormed ==
    pc = "idle" =>
        /\ page.basemap \in BasemapNames
        /\ Cardinality(ShownTileLayers) = 1
        /\ \A i \in ShownTileLayers : page.tile_layers[i].name = page.basemap
        /\ \A o \in DOMAIN basemap_options :
              Cardinality({ i \in DOMAIN page.tile_layers :
                              page.tile_layers[i].name = basemap_options[o][1] }) = 1
        /\ Len(page.tile_layers) = Len(basemap_options)
        /\ \A i \in DOMAIN page.tile_layers :
              << page.tile_layers[i].name, page.tile_layers[i].tiles >>
                 \in Range(basemap_options)

\* C21 witness: the map component reported a tile-provider name and a later
\* run built the map with the option of that provider.
C21_Witness ==
    /\ pc = "idle"
    /\ last_tile_layer = "CartoDB dark_matter"
    /\ session_state.active_basemap = "Dark (Dark Matter)"
    /\ page.basemap = "Dark (Dark Matter)"
    /\ page.tile_layers[1].show

====
